---- MODULE Spec2Model ----
(***************************************************************************)
(* Model of the RFP upload pipeline of node_proposal:                      *)
(*   ProposalService.processRFPDocument   (modules/proposals.js)           *)
(*   GeminiService.analyzeWithFallback    (modules/fileService.js)         *)
(*   FileService.saveGeneratedFile / deleteUploadedFile                    *)
(*   SimpleDatabase (proposals.json, whole-collection read / rewrite)      *)
(* Every await of a handler is one step, and every file-system or service  *)
(* call may succeed or fail.  Spec runs one upload at a time; the request  *)
(* frames of the second part run the service calls of several HTTP         *)
(* requests, one after the other or interleaved.                           *)
(***************************************************************************)
EXTENDS Integers, Sequences, FiniteSets, TLC

VARIABLES
    modelFallbacks,   \* GeminiService.modelFallbacks (ordered identifiers)
    proposalsFile,    \* content of data/proposals.json: a sequence of records
    generated,        \* generated/<proposalId>/<fileName> -> file
    uploads,          \* raw uploaded files present in the upload directory
    now,              \* logical time; advances with every upload request
    nextId,           \* next fresh proposal id (uuidv4)
    pc,               \* position of the running processRFPDocument call
    args,             \* its arguments (userId, proposalId, filePath, originalName)
    proposal,         \* local: the record loaded by getProposalRecord
    markdownContent,  \* local: result of convertToMarkdown
    saved,            \* local: descriptors returned by saveGeneratedFile
    fileContent,      \* local of analyzeRFPDocument: text read back from disk
    attemptCount,     \* parameter of analyzeWithFallback
    serviceCalls,     \* generateContent calls made by this invocation
    analysis,         \* local: value returned by analyzeRFPDocument
    err,              \* the error caught at proposals.js:354
    writeResult,      \* value returned by saveAllProposals inside saveProposalRecord
    removeResult,     \* outcome of fs.remove inside deleteUploadedFile
    result,           \* what processRFPDocument returned or threw
    storeBefore,      \* proposals.json as it was when the call started
    requests,         \* frames of the ProposalService calls in flight, one per HTTP request
    asmAnalysis,      \* the Analysis handed to the three document generators
    asmGiven,         \* that Analysis as it was before any generator ran
    asmDocuments,     \* the documents generated from it, by kind (latest call)
    asmPrevious,      \* by kind, the document of the call before the latest
    cacheEntries,     \* markdown cache: (work item, cache key) -> text and creation hour
    cacheClock,       \* wall clock of the cache, in hours
    cacheReturned,    \* the cache call made last and the value it returned
    httpSessions,     \* server.js: req.session of each client
    sessionsDir,      \* sessions/<sessionId>/: the files of each directory that exists
    dirCreator,       \* the client whose request made each session directory
    uploadsDir,       \* uploads/<sessionId>/: the files of each directory that exists
    nextUuid,         \* the next id uuidv4() returns in server.js
    response,         \* the response sent last
    accessed,         \* the session directories the last request read, wrote or deleted
    loginSessions,    \* content of data/sessions.json: the login sessions
    loginClock,       \* wall clock of the login sessions, in hours
    loginReturned,    \* the SimpleDatabase session call made last and what it returned
    currentStep,      \* WorkflowManager.currentStep
    completedSteps,   \* WorkflowManager.completedSteps
    tabDisabled,      \* the disabled property of the workflow tab of each step
    clientProposals,  \* ProposalManager.proposals: whether each proposal has artifacts
    activeProposalId, \* ProposalManager.activeProposalId
    artifactList,     \* the artifacts the artifact list of the page shows
    rfpFileSelected,  \* whether the RFP file input holds a file
    processRfpBtnDisabled, \* the disabled property of the analyze button
    uploadsInFlight,  \* the handleRfpProcessing calls that await their response
    appEvent          \* the handler of RfpProposalApp that ran last

vars == << modelFallbacks, proposalsFile, generated, uploads, now, nextId, pc,
           args, proposal, markdownContent, saved, fileContent, attemptCount,
           serviceCalls, analysis, err, writeResult, removeResult, result,
           storeBefore, requests, asmAnalysis, asmGiven, asmDocuments, asmPrevious,
           cacheEntries, cacheClock, cacheReturned, httpSessions, sessionsDir,
           dirCreator, uploadsDir, nextUuid, response, accessed, loginSessions,
           loginClock, loginReturned, currentStep, completedSteps, tabDisabled,
           clientProposals, activeProposalId, artifactList, rfpFileSelected,
           processRfpBtnDisabled, uploadsInFlight, appEvent >>

assemblyVars == << asmAnalysis, asmGiven, asmDocuments, asmPrevious >>

cacheVars == << cacheEntries, cacheClock, cacheReturned >>

\* the state of the upload pipeline and of the ProposalService calls
pipelineVars == << modelFallbacks, proposalsFile, generated, uploads, now, nextId, pc,
                   args, proposal, markdownContent, saved, fileContent, attemptCount,
                   serviceCalls, analysis, err, writeResult, removeResult, result,
                   storeBefore, requests, assemblyVars >>

\* the state of the other components, which the pipeline's steps leave alone
serverVars == << httpSessions, sessionsDir, dirCreator, uploadsDir, nextUuid, response,
                 accessed >>

loginVars == << loginSessions, loginClock, loginReturned >>

workflowVars == << currentStep, completedSteps, tabDisabled >>

appVars == << clientProposals, activeProposalId, artifactList, rfpFileSelected,
             processRfpBtnDisabled, uploadsInFlight, appEvent >>

auxVars == << cacheVars, serverVars, loginVars, workflowVars, appVars >>

callVars == << args, proposal, markdownContent, saved, fileContent, attemptCount,
               serviceCalls, analysis, err, writeResult, removeResult, result,
               storeBefore >>

(***************************************************************************)
(* Bounds                                                                  *)
(***************************************************************************)
MaxModels == 3
MaxUploads == 2
MaxProposals == 2
MaxItems == 2
MaxHours == 25
MaxSessions == 2
MaxLoginHours == 744

\* the RFP uploads of the browser client that may wait for a response at once
MaxInFlight == 2

(***************************************************************************)
(* Program constants and small value sets                                  *)
(***************************************************************************)
SUMMARY_LENGTH == 500

Users == {"u1", "u2"}

ProposalNames == {"Proposal 1", "Big Bid"}

AllModelNames ==
    << "gemini-2.0-flash", "gemini-1.5-flash", "gemini-1.5-pro", "gemini-pro",
       "gemini-2.0-flash-exp" >>

SUBTASK_DEFINITIONS == << "upload_rfp", "org_details", "solution_outline", "review_finalize" >>

Min(a, b) == IF a < b THEN a ELSE b

Range(s) == { s[i] : i \in DOMAIN s }

(***************************************************************************)
(* Errors                                                                  *)
(***************************************************************************)
NoError == [msg |-> "none", at |-> "none"]

NotFoundError == [msg |-> "Proposal not found", at |-> "processRFPDocument"]

SaveFileError == [msg |-> "Failed to save file", at |-> "saveGeneratedFile"]

ReadSourceError == [msg |-> "ENOENT", at |-> "analyzeRFPDocument"]

ModelError(model) == [msg |-> "generateContent failed", at |-> model]

LastModelError == ModelError(modelFallbacks[Len(modelFallbacks)])

ExhaustedError ==
    [msg |-> "All Gemini models failed. Please try again later or check your API quota.",
     at |-> "analyzeWithFallback"]

TypeErrorIn(fn) == [msg |-> "TypeError", at |-> fn]

(***************************************************************************)
(* Response texts of the text-generation service.  A text is a sequence   *)
(* of characters; inside braces an upper- or lower-case letter of          *)
(* MemberTokens stands for one well-formed member of the JSON object.      *)
(***************************************************************************)
Pad(n) == [i \in 1..n |-> "x"]

Ellipsis == << ".", ".", "." >>

MemberTokens == {"M", "O", "R", "r", "E", "C", "Q", "P"}

RequirementLists == {"functional", "technical", "compliance", "deliverables"}

AllFields ==
    {"metadata", "overview", "requirements", "evaluation", "constraints",
     "questions", "opportunities"} \cup RequirementLists

FieldsOf(tok) ==
    CASE tok = "M" -> {"metadata"}
      [] tok = "O" -> {"overview"}
      [] tok = "R" -> {"requirements"} \cup RequirementLists
      [] tok = "r" -> {"requirements", "functional"}
      [] tok = "E" -> {"evaluation"}
      [] tok = "C" -> {"constraints"}
      [] tok = "Q" -> {"questions"}
      [] tok = "P" -> {"opportunities"}
      [] OTHER -> {}

\* the responses tried against analyzeWithFallback on its own
RawTexts ==
    { << "{", "M", "O", "R", "E", "C", "Q", "P", "}" >>,
      << "x", "{", "M", "O", "R", "E", "C", "Q", "P", "}", "x" >>,
      << "{", "M", "O", "E", "C", "Q", "P", "}" >>,
      << "{", "M", "O", "r", "E", "C", "Q", "P", "}" >>,
      << "{", "M", "O", "R", "E", "C", "P", "}" >>,
      << "{", "}" >>,
      << "{", "M", "x", "}" >>,
      << "{", "O", "}", "x", "}" >>,
      << "}", "O", "{" >>,
      << >>,
      << "a", "b" >>,
      Pad(SUMMARY_LENGTH - 1),
      Pad(SUMMARY_LENGTH),
      Pad(SUMMARY_LENGTH + 1),
      Pad(SUMMARY_LENGTH + 1) \o << "{", "x" >>,
      Pad(SUMMARY_LENGTH) \o Ellipsis \o << "a" >> }

\* the responses tried inside a whole upload
ServiceTexts ==
    { << "x", "{", "M", "O", "R", "E", "C", "Q", "P", "}", "x" >>,
      << "{", "M", "O", "r", "E", "C", "Q", "P", "}" >>,
      << "{", "M", "O", "R", "E", "C", "P", "}" >>,
      << "a", "b" >> }


(***************************************************************************)
(* analyzeWithFallback: locating and parsing the JSON object of a response *)
(***************************************************************************)
NoAnalysis ==
    [source |-> "none", fields |-> {}, modelUsed |-> "none",
     projectSummary |-> << >>, fullText |-> << >>]

\* analysisText.match(/\{[\s\S]*\}/): from the first "{" to the last "}" after it
JsonMatch(text) ==
    LET opens  == { i \in DOMAIN text : text[i] = "{" }
        closes == { j \in DOMAIN text : text[j] = "}" }
    IN  IF opens = {} THEN << >>
        ELSE LET first == CHOOSE i \in opens : \A k \in opens : i <= k
                 after == { j \in closes : j > first }
             IN  IF after = {} THEN << >>
                 ELSE LET last == CHOOSE j \in after : \A k \in after : k <= j
                      IN  SubSeq(text, first, last)

\* JSON.parse succeeds on "{" member* "}" and throws on anything else
JsonParses(match) ==
    /\ Len(match) >= 2
    /\ match[1] = "{"
    /\ match[Len(match)] = "}"
    /\ \A i \in 2..(Len(match) - 1) : match[i] \in MemberTokens

JsonParse(match) == UNION { FieldsOf(match[i]) : i \in 2..(Len(match) - 1) }

ProjectSummary_NoEllipsis(text) == SubSeq(text, 1, Min(SUMMARY_LENGTH, Len(text)))

\* text.substring(0, 500) + "..."
ProjectSummary(text) == SubSeq(text, 1, Min(SUMMARY_LENGTH, Len(text))) \o Ellipsis

ParseStructuredResponse(text, modelUsed) ==
    [source |-> "fallback", fields |-> AllFields, modelUsed |-> modelUsed,
     projectSummary |-> ProjectSummary(text), fullText |-> text]

\* metadata.modelUsed as the response text has it: the member "M" carries the
\* identifier "gemini-2.0-flash"; without a metadata member there is none
WrittenModelUsed(match) ==
    IF \E i \in 2..(Len(match) - 1) : match[i] = "M" THEN "gemini-2.0-flash"
    ELSE "undefined"

\* the object the model wrote, returned as parsed (line 315)
ParsedAnalysis(match) ==
    [source |-> "json", fields |-> JsonParse(match), modelUsed |-> WrittenModelUsed(match),
     projectSummary |-> << >>, fullText |-> << >>]

\* lines 308-325: the value analyzeWithFallback returns for a response text
AnalysisOfResponse(text, currentModel) ==
    LET jsonMatch == JsonMatch(text)
    IN  IF jsonMatch # << >> /\ JsonParses(jsonMatch)
        THEN ParsedAnalysis(jsonMatch)
        ELSE ParseStructuredResponse(text, currentModel)

CurrentModel(count) == modelFallbacks[count + 1]

NextAttempt_Same(count) == count

NextAttempt(count) == count + 1

(***************************************************************************)
(* Artifact assembly                                                       *)
(***************************************************************************)
\* analysis.requirements.<list>.map(...) needs every requirement list
VariableTemplateThrows(a) == ~ (({"requirements"} \cup RequirementLists) \subseteq a.fields)

\* reads overview, metadata, the lists, evaluation.criteria, constraints,
\* questions and opportunities
RequirementsMarkdownThrows(a) == ~ (AllFields \subseteq a.fields)

\* An Analysis with its lists written out.  Every list is a sequence of
\* distinct entries; budget and timeline are strings, "" when not given.
Entries == << "a", "b", "c", "d" >>

ListValues == { SubSeq(Entries, 1, n) : n \in 0..MaxItems }

MakeAnalysis(functional, technical, compliance, deliverables, rest, budget, timeline) ==
    [metadata |-> [fileName |-> "rfp.txt", proposalName |-> "Proposal 1",
                   analysisDate |-> "2024-01-01", modelUsed |-> "gemini-2.0-flash"],
     overview |-> [title |-> "Title", organization |-> "Org", dueDate |-> "Not specified",
                   projectSummary |-> "Summary"],
     requirements |-> [functional |-> functional, technical |-> technical,
                       compliance |-> compliance, deliverables |-> deliverables],
     evaluation |-> [criteria |-> rest, process |-> "Not specified"],
     constraints |-> [budget |-> budget, timeline |-> timeline, other |-> rest],
     questions |-> rest,
     opportunities |-> rest]

EmptyAnalysis == MakeAnalysis(<< >>, << >>, << >>, << >>, << >>, "", "")

Analyses ==
    { MakeAnalysis(f, t, c, d, rest, budget, timeline) :
        f \in ListValues, t \in ListValues, c \in ListValues, d \in ListValues,
        rest \in { << >>, << "a", "b" >> }, budget \in {"", "$1"},
        timeline \in {"", "Q1"} }

\* generateNunjucksTemplate returns a fixed text (its first lines are kept here)
TemplateText ==
    << "# {{ metadata.proposalName }} - Response to {{ overview.title }}", "",
       "**Prepared for:** {{ overview.organization }}",
       "**Due Date:** {{ overview.dueDate }}",
       "## Executive Summary", "{{ executiveSummary }}",
       "### Functional Requirements Response",
       "{% for requirement in requirements.functional %}",
       "{{ differentiators }}" >>

GenerateNunjucksTemplateOf(a) == TemplateText

Placeholders_One(list, text) == << text >>

\* list.map(() => text)
Placeholders(list, text) == [i \in 1..Len(list) |-> text]

GenerateVariableTemplateOf(a) ==
    [metadata |-> a.metadata,
     overview |-> a.overview,
     requirements |-> a.requirements,
     evaluation |-> a.evaluation,
     constraints |-> a.constraints,
     executiveSummary |->
        "{{ TO_BE_FILLED: Brief executive summary highlighting key value proposition }}",
     responses |->
        [functional |-> Placeholders(a.requirements.functional,
                            "{{ TO_BE_FILLED: Response to functional requirement }}"),
         technical |-> Placeholders(a.requirements.technical,
                            "{{ TO_BE_FILLED: Response to technical requirement }}"),
         compliance |-> Placeholders(a.requirements.compliance,
                            "{{ TO_BE_FILLED: Compliance response }}"),
         deliverables |-> Placeholders(a.requirements.deliverables,
                            "{{ TO_BE_FILLED: Deliverable details }}")],
     differentiators |->
        "{{ TO_BE_FILLED: Key differentiators and unique value proposition }}"]

\* A markdown text is a sequence of lines, a line a sequence of pieces.
Blank == << "" >>

Numbered(list) == [i \in 1..Len(list) |-> << ToString(i), ". ", list[i] >>]

Bulleted(list) == [i \in 1..Len(list) |-> << "- ", list[i] >>]

\* a heading, an empty line, the numbered entries and an empty line
Section(heading, list) ==
    IF Len(list) > 0 THEN << << heading >>, Blank >> \o Numbered(list) \o << Blank >>
    ELSE << >>

ConstraintsSection(c) ==
    IF c.budget # "" \/ c.timeline # ""
    THEN << << "## Project Constraints" >>, Blank >>
         \o (IF c.budget # "" THEN << << "**Budget:** ", c.budget >> >> ELSE << >>)
         \o (IF c.timeline # "" THEN << << "**Timeline:** ", c.timeline >> >> ELSE << >>)
         \o (IF Len(c.other) > 0
             THEN << << "**Other Constraints:**" >> >> \o Bulleted(c.other)
             ELSE << >>)
         \o << Blank >>
    ELSE << >>

GenerateRequirementsMarkdownOf(a) ==
    << << "# Requirements Analysis: ", a.overview.title >>, Blank,
       << "**Generated:** ", a.metadata.analysisDate >>,
       << "**Source:** ", a.metadata.fileName >>,
       << "**Organization:** ", a.overview.organization >>,
       << "**Due Date:** ", a.overview.dueDate >>, Blank,
       << "## Project Overview" >>, Blank, << a.overview.projectSummary >>, Blank >>
    \o Section("## Functional Requirements", a.requirements.functional)
    \o Section("## Technical Requirements", a.requirements.technical)
    \o Section("## Compliance Requirements", a.requirements.compliance)
    \o Section("## Expected Deliverables", a.requirements.deliverables)
    \o Section("## Evaluation Criteria", a.evaluation.criteria)
    \o ConstraintsSection(a.constraints)
    \o Section("## Key Questions to Address", a.questions)
    \o (IF Len(a.opportunities) > 0
        THEN << << "## Opportunities for Differentiation" >>, Blank >>
             \o Numbered(a.opportunities)
        ELSE << >>)


(***************************************************************************)
(* SimpleDatabase: proposals.json is read and rewritten as a whole         *)
(***************************************************************************)
BuildSubtasks == [k \in Range(SUBTASK_DEFINITIONS) |-> "pending"]

BuildProposal(id, userId, name, t) ==
    [id |-> id, userId |-> userId, name |-> name, documents |-> << >>,
     subtasks |-> BuildSubtasks, outputs |-> << >>, analysis |-> NoAnalysis,
     createdAt |-> t, updatedAt |-> t]

NoProposal == BuildProposal(0, "none", "none", 0)

\* readFile: a failed read or parse is logged and yields []
ReadFile(readOk) == IF readOk THEN proposalsFile ELSE << >>

\* writeFile: a failed write is logged, the file keeps its content
WriteFile(writeOk, data) == IF writeOk THEN data ELSE proposalsFile

WriteReturn(writeOk) == IF writeOk THEN "true" ELSE "false"

GetProposalsByUser(proposals, userId) == SelectSeq(proposals, LAMBDA p : p.userId = userId)

FindIndex(proposals, id, userId) ==
    LET hits == { i \in DOMAIN proposals :
                    proposals[i].id = id /\ proposals[i].userId = userId }
    IN  IF hits = {} THEN 0 ELSE CHOOSE i \in hits : \A j \in hits : i <= j

\* variant: the owner is not compared
GetProposalRecord_AnyOwner(proposals, userId, proposalId) ==
    LET hits == { i \in DOMAIN proposals : proposals[i].id = proposalId }
    IN  IF hits = {} THEN NoProposal
        ELSE proposals[CHOOSE i \in hits : \A j \in hits : i <= j]

GetProposalRecord(proposals, userId, proposalId) ==
    LET i == FindIndex(proposals, proposalId, userId)
    IN  IF i = 0 THEN NoProposal ELSE proposals[i]

SaveProposalRecord(proposals, p) ==
    LET existingIndex == FindIndex(proposals, p.id, p.userId)
    IN  IF existingIndex > 0 THEN [proposals EXCEPT ![existingIndex] = p]
        ELSE Append(proposals, p)

ToLowerCase(name) ==
    CASE name = "Proposal 1" -> "proposal 1"
      [] name = "Big Bid" -> "big bid"
      [] OTHER -> name

\* name.replace(/\s+/g, '-').toLowerCase()
SafeBaseName(name) ==
    CASE name = "Proposal 1" -> "proposal-1"
      [] name = "Big Bid" -> "big-bid"
      [] OTHER -> name

(***************************************************************************)
(* FileService: generated/<proposalId>/<fileName>                          *)
(***************************************************************************)
FilePath(proposalId, fileName) == << proposalId, fileName >>

WriteGenerated(path, content, t) ==
    [p \in (DOMAIN generated) \cup {path} |->
        IF p = path THEN [content |-> content, mtime |-> t] ELSE generated[p]]

SaveSteps == {"saveSource", "saveTemplate", "saveVariables", "saveRequirements"}

StepSuffix(step) ==
    CASE step = "saveSource" -> "-source-document.md"
      [] step = "saveTemplate" -> "-response-template.md"
      [] step = "saveVariables" -> "-variables.json"
      [] step = "saveRequirements" -> "-requirements.md"

StepType(step) ==
    CASE step = "saveSource" -> "Source Document"
      [] step = "saveTemplate" -> "Template"
      [] step = "saveVariables" -> "Variables"
      [] step = "saveRequirements" -> "Requirements"

StepAfter(step) ==
    CASE step = "saveSource" -> "readSource"
      [] step = "saveTemplate" -> "saveVariables"
      [] step = "saveVariables" -> "saveRequirements"
      [] step = "saveRequirements" -> "saveProposalRecord"

\* what each step writes: the converted upload, the fixed template text, and
\* the two documents derived from the analysis
ContentOf(step, markdown, a) ==
    CASE step = "saveSource" -> markdown
      [] step = "saveTemplate" -> << "template", 0 >>
      [] step = "saveVariables" -> << "variables", a.source, a.fields >>
      [] step = "saveRequirements" -> << "requirements", a.source, a.fields >>

StepContent(step) == ContentOf(step, markdownContent, analysis)

StepFileName(step) == << SafeBaseName(proposal.name), StepSuffix(step) >>


(***************************************************************************)
(* Initial state: freshly constructed services, empty record store         *)
(***************************************************************************)
NoArgs == [userId |-> "none", proposalId |-> 0, filePath |-> 0, originalName |-> "none"]

NoResult == [kind |-> "none", err |-> NoError]

Idle == pc = "idle"

\* the HTTP requests that can be in flight at the same time
Requests == {"r1", "r2"}

NoSnapshot == [store |-> << >>, files |-> << >>]

\* the frame of one ProposalService call: its arguments, its locals, what it
\* returned or threw, and the I/O calls it has made so far
NoFrame ==
    [op |-> "none", pc |-> "idle", userId |-> "none", proposalId |-> 0,
     fileName |-> << >>, name |-> "none", filePath |-> 0, proposal |-> NoProposal,
     proposals |-> << >>, saved |-> << >>, analysis |-> NoAnalysis, err |-> NoError,
     content |-> << >>, result |-> NoResult, returned |-> << >>, io |-> << >>,
     before |-> NoSnapshot]

\* the orderings of the first n identifiers, for n up to MaxModels
ModelLists ==
    { l \in UNION { [1..n -> { AllModelNames[i] : i \in 1..MaxModels }] : n \in 1..MaxModels } :
        \A i, j \in DOMAIN l : i # j => l[i] # l[j] }

(***************************************************************************)
(* Markdown cache (spec.md 4.2): per work item, cache key -> extracted      *)
(* text with its creation time.  Time is counted in hours.                  *)
(***************************************************************************)
FRESHNESS_HOURS == 24

CacheWorkItems == {1, 2}

CacheKeys == {"k1"}

CacheTexts == {"# Title A", "# Title B"}

Absent == "absent"

NoCacheCall == [op |-> "none", workItem |-> 0, key |-> "none", readable |-> TRUE,
                value |-> "none"]

\* an entry of exactly 24 hours counts as fresh
Fresh_Inclusive(entry, t) == t - entry.createdAt <= FRESHNESS_HOURS

\* an entry is valid only while its age is below the freshness window
Fresh(entry, t) == t - entry.createdAt < FRESHNESS_HOURS

\* get(workItemId, cacheKey): absent if there is no entry under the work item,
\* if its metadata is unreadable, or if its age is 24 hours or more
CacheLookup(entries, t, workItem, key, readable) ==
    IF /\ << workItem, key >> \in DOMAIN entries
       /\ readable
       /\ Fresh(entries[<< workItem, key >>], t)
    THEN entries[<< workItem, key >>].text
    ELSE Absent

(***************************************************************************)
(* server.js: HTTP sessions, session directories and the upload, generate,  *)
(* download and session routes.  A session id is a number: the id of the    *)
(* express session of client c is c, the ids made by uuidv4() follow.  A    *)
(* file name is a pair of base name and extension.                          *)
(***************************************************************************)
Clients == {1, 2}

FirstUuid == 3

SESSION_FILES ==
    [RFP_ORIGINAL |-> << "rfp-original", "" >>,
     RFP_REQUIREMENTS |-> << "rfp-requirements", ".md" >>,
     RFP_VARIABLES |-> << "rfp-variables", ".json" >>,
     RFP_TEMPLATE |-> << "rfp-template", ".njk" >>,
     ORG_ORIGINAL |-> << "org-original", "" >>,
     ORG_ANALYSIS |-> << "org-analysis", ".md" >>]

SessionMetaName == << "session-meta", ".json" >>

MappingName == << "requirements-mapping", ".json" >>

\* `rfp-response-${Date.now()}.docx`
ResponseName == << "rfp-response-1700000000000", ".docx" >>

PDF_MIME == "application/pdf"

TXT_MIME == "text/plain"

DOCX_MIME == "application/vnd.openxmlformats-officedocument.wordprocessingml.document"

\* an upload: the mimetype the browser sent and the extension of originalname
NoFile == [mimetype |-> "none", ext |-> "none"]

UploadFiles ==
    { [mimetype |-> PDF_MIME, ext |-> ".pdf"],
      [mimetype |-> TXT_MIME, ext |-> ".txt"],
      [mimetype |-> DOCX_MIME, ext |-> ".docx"],
      [mimetype |-> "application/octet-stream", ext |-> ".PDF"],
      [mimetype |-> "application/octet-stream", ext |-> ".exe"] }

\* originalname.match(/\.(pdf|txt|docx)$/i)
MatchesAllowedExtension(ext) == ext \in {".pdf", ".txt", ".docx", ".PDF", ".TXT", ".DOCX"}

\* fileFilter, lines 205-213
FileFilter(file) ==
    \/ file.mimetype \in {PDF_MIME, TXT_MIME, DOCX_MIME}
    \/ MatchesAllowedExtension(file.ext)

\* what reading and parsing the stored upload can do
ExtractionOutcomes == {"ok", "readFails", "parseFails"}

ExtractedText == [kind |-> "text", text |-> "extracted text"]

Raised(msg) == [kind |-> "error", text |-> msg]

\* extractTextFromFile, lines 222-239: every error is logged and thrown again
ExtractTextFromFile(ext, mimetype, outcome) ==
    IF mimetype = PDF_MIME \/ ext = ".pdf"
    THEN IF outcome = "readFails" THEN Raised("ENOENT")
         ELSE IF outcome = "parseFails" THEN Raised("Invalid PDF structure")
         ELSE ExtractedText
    ELSE IF mimetype = DOCX_MIME \/ ext = ".docx"
    THEN IF outcome = "ok" THEN ExtractedText ELSE Raised("Could not read docx")
    ELSE IF mimetype = TXT_MIME \/ ext = ".txt"
    THEN IF outcome = "readFails" THEN Raised("ENOENT") ELSE ExtractedText
    ELSE Raised("Unsupported file type")

NoHttpSession ==
    [currentSessionId |-> 0, rfpData |-> "none", orgData |-> "none",
     rfpFile |-> "none", orgFile |-> "none", generatedDoc |-> "none"]

NoResponse ==
    [client |-> 0, route |-> "none", status |-> 0, error |-> "none",
     extracted |-> "none", calls |-> 0, fromCache |-> FALSE, fileName |-> << >>,
     sessionId |-> 0, prompt |-> "none"]

(***************************************************************************)
(* SimpleDatabase login sessions (data/sessions.json).  Time is counted in  *)
(* hours.                                                                   *)
(***************************************************************************)
\* 24 * 60 * 60 * 1000 ms
SESSION_HOURS == 24

\* 30 * 24 * 60 * 60 * 1000 ms
REMEMBER_ME_HOURS == 30 * 24

\* the ids uuidv4() can return
LoginIds == {"s1", "s2"}

\* the instants at which calls are made: a day and two days after the
\* start, and a day before, at and a day after the thirtieth day
Instants == {0, 24, 48, 29 * 24, 30 * 24, 31 * 24}

NoLoginCall ==
    [op |-> "none", id |-> "none", readOk |-> TRUE, writeOk |-> TRUE, value |-> "none"]

(***************************************************************************)
(* WorkflowManager (src/public/js/modules/workflow.js): the tab workflow   *)
(* of the browser client.                                                  *)
(***************************************************************************)

\* options.maxSteps || 4
maxSteps == 4

WorkflowSteps == 1 .. maxSteps

\* the step numbers callers pass: the steps, and one below and one above them
StepArguments == 0 .. (maxSteps + 1)

\* the completedSteps arrays handed to setProgress
ProgressLists == { << >>, << 1 >>, << 1, 2 >>, << 3 >>, << 2, 1 >> }

\* the progress objects handed to setProgress: each field present or missing
ProgressObjects ==
    { [currentStep |-> step, completedSteps |-> steps] :
          step \in StepArguments, steps \in ProgressLists }
    \cup { [currentStep |-> step] : step \in StepArguments }
    \cup { [completedSteps |-> steps] : steps \in ProgressLists }

Includes(steps, step) == \E i \in DOMAIN steps : steps[i] = step

\* Math.max(...steps) of a non-empty array
MaxOf(steps) ==
    CHOOSE m \in { steps[i] : i \in DOMAIN steps } :
        \A i \in DOMAIN steps : steps[i] <= m

IsStepAccessible(step, completed) ==
    IF step = 1 THEN TRUE
    ELSE IF Len(completed) = 0 THEN FALSE
    ELSE step <= MaxOf(completed) + 1

\* the value updateTabAccessibility gives tab.disabled
UpdateTabAccessibility(step, completed) ==
    IF step = 1 THEN FALSE
    ELSE IF Len(completed) = 0 THEN TRUE
    ELSE IF step <= MaxOf(completed) + 1 THEN FALSE
    ELSE TRUE

UpdateTabStates(completed) ==
    [step \in WorkflowSteps |-> UpdateTabAccessibility(step, completed)]

\* the current step switchToStep leaves: an invalid step is refused
SwitchedTo(step, current) ==
    IF step < 1 \/ step > maxSteps THEN current ELSE step

\* the completed steps markStepCompleted leaves
MarkedCompleted(step, completed) ==
    IF step < 1 \/ step > maxSteps THEN completed
    ELSE IF Includes(completed, step) THEN completed
    ELSE Append(completed, step)

InitWorkflow ==
    /\ currentStep = 1
    /\ completedSteps = << >>
    /\ tabDisabled = UpdateTabStates(<< >>)

\* the other components after construction
(***************************************************************************)
(* RfpProposalApp (src/public/js/app.js) with its ProposalManager: the      *)
(* proposals the browser client holds, the active proposal, the artifact    *)
(* list and the RFP uploads that wait for their response.  The artifacts    *)
(* of a proposal are named by the id of the proposal.                       *)
(***************************************************************************)
AppProposalIds == {1, 2}

\* activeProposalId = null
NoActiveProposal == 0

NoAppEvent == [kind |-> "none", proposal |-> 0, step |-> 0]

\* proposal.artifacts.outputs of a proposal the client holds
OutputsOf(proposals, proposalId) == IF proposals[proposalId] THEN {proposalId} ELSE {}

\* the tabs after enableNextStep: the current step is marked completed and
\* the tab of the next step, if there is one, is enabled
TabsAfterEnableNextStep(current, completed, tabs) ==
    LET marked == IF current < 1 \/ current > maxSteps
                  THEN tabs
                  ELSE UpdateTabStates(MarkedCompleted(current, completed))
    IN  IF current < maxSteps /\ (current + 1) \in WorkflowSteps
        THEN [marked EXCEPT ![current + 1] = FALSE]
        ELSE marked

\* the state after loadInitialData: proposals loaded, none of them active
InitApp ==
    /\ clientProposals = [p \in AppProposalIds |-> FALSE]
    /\ activeProposalId = NoActiveProposal
    /\ artifactList = {}
    /\ rfpFileSelected = FALSE
    /\ processRfpBtnDisabled = TRUE
    /\ uploadsInFlight = << >>
    /\ appEvent = NoAppEvent

InitAux ==
    /\ cacheEntries = << >>
    /\ cacheClock = 0
    /\ cacheReturned = NoCacheCall
    /\ httpSessions = [c \in Clients |-> NoHttpSession]
    /\ sessionsDir = << >>
    /\ dirCreator = << >>
    /\ uploadsDir = << >>
    /\ nextUuid = FirstUuid
    /\ response = NoResponse
    /\ accessed = {}
    /\ loginSessions = << >>
    /\ loginClock = 0
    /\ loginReturned = NoLoginCall
    /\ InitWorkflow
    /\ InitApp

Init ==
    /\ modelFallbacks = << AllModelNames[1] >>
    /\ proposalsFile = << >>
    /\ generated = << >>
    /\ uploads = {}
    /\ now = 0
    /\ nextId = 1
    /\ pc = "idle"
    /\ args = NoArgs
    /\ proposal = NoProposal
    /\ markdownContent = << >>
    /\ saved = << >>
    /\ fileContent = << >>
    /\ attemptCount = 0
    /\ serviceCalls = << >>
    /\ analysis = NoAnalysis
    /\ err = NoError
    /\ writeResult = "none"
    /\ removeResult = "none"
    /\ result = NoResult
    /\ storeBefore = << >>
    /\ requests = [r \in Requests |-> NoFrame]
    /\ asmAnalysis = EmptyAnalysis
    /\ asmGiven = EmptyAnalysis
    /\ asmDocuments = << >>
    /\ asmPrevious = << >>
    /\ InitAux

(***************************************************************************)
(* Proposal CRUD used to populate the store                                *)
(***************************************************************************)
EnsureSeedProposals(userId) ==
    /\ Idle
    /\ nextId <= MaxProposals
    /\ LET existing == GetProposalsByUser(ReadFile(TRUE), userId)
           seed == BuildProposal(nextId, userId, "Proposal 1", now)
       IN  /\ Len(existing) = 0
           /\ proposalsFile' = WriteFile(TRUE, SaveProposalRecord(ReadFile(TRUE), seed))
           /\ nextId' = nextId + 1
    /\ UNCHANGED << auxVars, assemblyVars, requests, modelFallbacks, generated, uploads, now, pc, callVars >>

CreateProposal(userId, name) ==
    /\ Idle
    /\ nextId <= MaxProposals
    /\ LET proposals == GetProposalsByUser(ReadFile(TRUE), userId)
           duplicate == \E i \in DOMAIN proposals :
                           ToLowerCase(proposals[i].name) = ToLowerCase(name)
           created == BuildProposal(nextId, userId, name, now)
       IN  /\ ~ duplicate
           /\ proposalsFile' = WriteFile(TRUE, SaveProposalRecord(ReadFile(TRUE), created))
           /\ nextId' = nextId + 1
    /\ UNCHANGED << auxVars, assemblyVars, requests, modelFallbacks, generated, uploads, now, pc, callVars >>

(***************************************************************************)
(* processRFPDocument, one step per await                                  *)
(***************************************************************************)
\* the upload route stores the raw file and calls processRFPDocument
StartUpload(userId, proposalId) ==
    /\ Idle
    /\ now < MaxUploads
    /\ now' = now + 1
    /\ uploads' = uploads \cup {now'}
    /\ args' = [userId |-> userId, proposalId |-> proposalId, filePath |-> now',
                originalName |-> "rfp.txt"]
    /\ pc' = "getProposalRecord"
    /\ proposal' = NoProposal
    /\ markdownContent' = << >>
    /\ saved' = << >>
    /\ fileContent' = << >>
    /\ attemptCount' = 0
    /\ serviceCalls' = << >>
    /\ analysis' = NoAnalysis
    /\ err' = NoError
    /\ writeResult' = "none"
    /\ removeResult' = "none"
    /\ result' = NoResult
    /\ storeBefore' = proposalsFile
    /\ UNCHANGED << auxVars, assemblyVars, requests, modelFallbacks, proposalsFile, generated, nextId >>

\* any throw inside the try block lands in the catch block of line 354
Throw(error) ==
    /\ err' = error
    /\ pc' = "cleanupErr"

LoadProposal ==
    /\ pc = "getProposalRecord"
    /\ \E readOk \in BOOLEAN :
         LET found == GetProposalRecord(ReadFile(readOk), args.userId, args.proposalId)
         IN  IF found = NoProposal
             THEN Throw(NotFoundError) /\ UNCHANGED proposal
             ELSE proposal' = found /\ pc' = "convertToMarkdown" /\ UNCHANGED err
    /\ UNCHANGED << auxVars, assemblyVars, requests, modelFallbacks, proposalsFile, generated, uploads, now, nextId, args,
                    markdownContent, saved, fileContent, attemptCount, serviceCalls,
                    analysis, writeResult, removeResult, result, storeBefore >>

\* convertToMarkdown always yields a text for the uploaded file
ConvertToMarkdown ==
    /\ pc = "convertToMarkdown"
    /\ markdownContent' = << "markdown of upload", args.filePath >>
    /\ pc' = "saveSource"
    /\ UNCHANGED << auxVars, assemblyVars, requests, modelFallbacks, proposalsFile, generated, uploads, now, nextId, args,
                    proposal, saved, fileContent, attemptCount, serviceCalls, analysis,
                    err, writeResult, removeResult, result, storeBefore >>

\* variant: the record is saved as soon as a file has been written
SaveGeneratedFileOk_PersistEarly ==
    /\ pc \in SaveSteps
    /\ LET fileName == StepFileName(pc)
           path == FilePath(args.proposalId, fileName)
       IN  /\ generated' = WriteGenerated(path, StepContent(pc), now)
           /\ saved' = Append(saved, [id |-> << now, fileName >>, name |-> fileName,
                                      path |-> path, type |-> StepType(pc),
                                      createdAt |-> now])
    /\ proposalsFile' =
          SaveProposalRecord(proposalsFile,
              [proposal EXCEPT !.outputs = [i \in 1..Len(saved') |->
                  [id |-> saved'[i].id, type |-> saved'[i].type, name |-> saved'[i].name,
                   filePath |-> saved'[i].path, createdAt |-> saved'[i].createdAt,
                   size |-> -1, updatedAt |-> -1]]])
    /\ pc' = StepAfter(pc)
    /\ UNCHANGED << auxVars, assemblyVars, requests, modelFallbacks, uploads, now, nextId, args, proposal,
                    markdownContent, fileContent, attemptCount, serviceCalls, analysis,
                    err, writeResult, removeResult, result, storeBefore >>

SaveGeneratedFileOk ==
    /\ pc \in SaveSteps
    /\ LET fileName == StepFileName(pc)
           path == FilePath(args.proposalId, fileName)
       IN  /\ generated' = WriteGenerated(path, StepContent(pc), now)
           /\ saved' = Append(saved, [id |-> << now, fileName >>, name |-> fileName,
                                      path |-> path, type |-> StepType(pc),
                                      createdAt |-> now])
    /\ pc' = StepAfter(pc)
    /\ UNCHANGED << auxVars, assemblyVars, requests, modelFallbacks, proposalsFile, uploads, now, nextId, args, proposal,
                    markdownContent, fileContent, attemptCount, serviceCalls, analysis,
                    err, writeResult, removeResult, result, storeBefore >>

SaveGeneratedFileFails ==
    /\ pc \in SaveSteps
    /\ Throw(SaveFileError)
    /\ UNCHANGED << auxVars, assemblyVars, requests, modelFallbacks, proposalsFile, generated, uploads, now, nextId, args,
                    proposal, markdownContent, saved, fileContent, attemptCount,
                    serviceCalls, analysis, writeResult, removeResult, result,
                    storeBefore >>

\* analyzeRFPDocument: fs.readFile(markdownFile.path)
ReadSourceOk ==
    /\ pc = "readSource"
    /\ saved[1].path \in DOMAIN generated
    /\ fileContent' = generated[saved[1].path].content
    /\ pc' = "analyzeWithFallback"
    /\ UNCHANGED << auxVars, assemblyVars, requests, modelFallbacks, proposalsFile, generated, uploads, now, nextId, args,
                    proposal, markdownContent, saved, attemptCount, serviceCalls, analysis,
                    err, writeResult, removeResult, result, storeBefore >>

ReadSourceFails ==
    /\ pc = "readSource"
    /\ Throw(ReadSourceError)
    /\ UNCHANGED << auxVars, assemblyVars, requests, modelFallbacks, proposalsFile, generated, uploads, now, nextId, args,
                    proposal, markdownContent, saved, fileContent, attemptCount,
                    serviceCalls, analysis, writeResult, removeResult, result,
                    storeBefore >>


(***************************************************************************)
(* analyzeWithFallback(fileContent, fileName, proposalName, attemptCount)  *)
(***************************************************************************)
\* variant: the exhaustion test is off by one and never fires
AllModelsFailed_OffByOne ==
    /\ pc = "analyzeWithFallback"
    /\ attemptCount > Len(modelFallbacks)
    /\ Throw(ExhaustedError)
    /\ UNCHANGED << auxVars, assemblyVars, requests, modelFallbacks, proposalsFile, generated, uploads, now, nextId, args,
                    proposal, markdownContent, saved, fileContent, attemptCount,
                    serviceCalls, analysis, writeResult, removeResult, result,
                    storeBefore >>

AllModelsFailed ==
    /\ pc = "analyzeWithFallback"
    /\ attemptCount >= Len(modelFallbacks)
    /\ Throw(ExhaustedError)
    /\ UNCHANGED << auxVars, assemblyVars, requests, modelFallbacks, proposalsFile, generated, uploads, now, nextId, args,
                    proposal, markdownContent, saved, fileContent, attemptCount,
                    serviceCalls, analysis, writeResult, removeResult, result,
                    storeBefore >>

\* generateContent (or response.text()) throws: recurse with attemptCount + 1
CallModelFails ==
    /\ pc = "analyzeWithFallback"
    /\ attemptCount < Len(modelFallbacks)
    /\ serviceCalls' = Append(serviceCalls,
                              [model |-> CurrentModel(attemptCount), ok |-> FALSE,
                               text |-> << >>])
    /\ attemptCount' = NextAttempt(attemptCount)
    /\ UNCHANGED << auxVars, assemblyVars, requests, modelFallbacks, proposalsFile, generated, uploads, now, nextId, pc,
                    args, proposal, markdownContent, saved, fileContent, analysis, err,
                    writeResult, removeResult, result, storeBefore >>

\* variant: the response is kept but the next identifier is still tried
CallModelResponds_KeepTrying(text) ==
    /\ pc = "analyzeWithFallback"
    /\ attemptCount < Len(modelFallbacks)
    /\ serviceCalls' = Append(serviceCalls,
                              [model |-> CurrentModel(attemptCount), ok |-> TRUE,
                               text |-> text])
    /\ analysis' = AnalysisOfResponse(text, CurrentModel(attemptCount))
    /\ attemptCount' = NextAttempt(attemptCount)
    /\ UNCHANGED << auxVars, assemblyVars, requests, modelFallbacks, proposalsFile, generated, uploads, now, nextId, pc,
                    args, proposal, markdownContent, saved, fileContent, err,
                    writeResult, removeResult, result, storeBefore >>

\* generateContent returns a text: parse it, or fall back to the text parser
CallModelResponds(text) ==
    /\ pc = "analyzeWithFallback"
    /\ attemptCount < Len(modelFallbacks)
    /\ serviceCalls' = Append(serviceCalls,
                              [model |-> CurrentModel(attemptCount), ok |-> TRUE,
                               text |-> text])
    /\ analysis' = AnalysisOfResponse(text, CurrentModel(attemptCount))
    /\ pc' = "assemble"
    /\ UNCHANGED << auxVars, assemblyVars, requests, modelFallbacks, proposalsFile, generated, uploads, now, nextId, args,
                    proposal, markdownContent, saved, fileContent, attemptCount, err,
                    writeResult, removeResult, result, storeBefore >>

(***************************************************************************)
(* generateNunjucksTemplate / generateVariableTemplate /                   *)
(* generateRequirementsMarkdown (synchronous, lines 260-262)               *)
(***************************************************************************)
AssembleOk ==
    /\ pc = "assemble"
    /\ ~ VariableTemplateThrows(analysis)
    /\ ~ RequirementsMarkdownThrows(analysis)
    /\ pc' = "saveTemplate"
    /\ UNCHANGED << auxVars, assemblyVars, requests, modelFallbacks, proposalsFile, generated, uploads, now, nextId, args,
                    proposal, markdownContent, saved, fileContent, attemptCount,
                    serviceCalls, analysis, err, writeResult, removeResult, result,
                    storeBefore >>

AssembleFails ==
    /\ pc = "assemble"
    /\ \/ /\ VariableTemplateThrows(analysis)
          /\ Throw(TypeErrorIn("generateVariableTemplate"))
       \/ /\ ~ VariableTemplateThrows(analysis)
          /\ RequirementsMarkdownThrows(analysis)
          /\ Throw(TypeErrorIn("generateRequirementsMarkdown"))
    /\ UNCHANGED << auxVars, assemblyVars, requests, modelFallbacks, proposalsFile, generated, uploads, now, nextId, args,
                    proposal, markdownContent, saved, fileContent, attemptCount,
                    serviceCalls, analysis, writeResult, removeResult, result,
                    storeBefore >>

(***************************************************************************)
(* lines 287-343: update the loaded record and save it                     *)
(***************************************************************************)
\* size and updatedAt are absent (-1) until updateArtifact sets them
ArtifactEntry(file) ==
    [id |-> file.id, type |-> file.type, name |-> file.name, filePath |-> file.path,
     createdAt |-> file.createdAt, size |-> -1, updatedAt |-> -1]

\* variant: the four entries are appended to the artifact list
UpdateProposal_AppendsArtifacts(p, originalName, files, a, t) ==
    [p EXCEPT
        !.documents = Append(@, [id |-> t, name |-> originalName,
                                 uploadedAt |-> t, analysisCompleted |-> TRUE]),
        !.outputs = @ \o [i \in 1..Len(files) |-> ArtifactEntry(files[i])],
        !.analysis = a,
        !.subtasks = [@ EXCEPT !["upload_rfp"] = "completed"],
        !.updatedAt = t]

UpdateProposal(p, originalName, files, a, t) ==
    [p EXCEPT
        !.documents = Append(@, [id |-> t, name |-> originalName,
                                 uploadedAt |-> t, analysisCompleted |-> TRUE]),
        !.outputs = [i \in 1..Len(files) |-> ArtifactEntry(files[i])],
        !.analysis = a,
        !.subtasks = [@ EXCEPT !["upload_rfp"] = "completed"],
        !.updatedAt = t]

UpdatedProposal == UpdateProposal(proposal, args.originalName, saved, analysis, now)

UpdateAndSaveProposal ==
    /\ pc = "saveProposalRecord"
    /\ proposal' = UpdatedProposal
    /\ \E readOk, writeOk \in BOOLEAN :
         /\ proposalsFile' = WriteFile(writeOk, SaveProposalRecord(ReadFile(readOk), proposal'))
         /\ writeResult' = WriteReturn(writeOk)
    /\ pc' = "cleanupOk"
    /\ UNCHANGED << auxVars, assemblyVars, requests, modelFallbacks, generated, uploads, now, nextId, args, markdownContent,
                    saved, fileContent, attemptCount, serviceCalls, analysis, err,
                    removeResult, result, storeBefore >>

(***************************************************************************)
(* deleteUploadedFile: fs.remove inside try/catch, on both paths           *)
(***************************************************************************)
DeleteUploadedFile(filePath, removeOk) ==
    /\ uploads' = IF removeOk THEN uploads \ {filePath} ELSE uploads
    /\ removeResult' = IF removeOk THEN "removed" ELSE "failed"

CleanupAfterSuccess ==
    /\ pc = "cleanupOk"
    /\ \E removeOk \in BOOLEAN : DeleteUploadedFile(args.filePath, removeOk)
    /\ result' = [kind |-> "ok", err |-> NoError]
    /\ pc' = "done"
    /\ UNCHANGED << auxVars, assemblyVars, requests, modelFallbacks, proposalsFile, generated, now, nextId, args, proposal,
                    markdownContent, saved, fileContent, attemptCount, serviceCalls,
                    analysis, err, writeResult, storeBefore >>

\* variant: the catch block rethrows without cleaning up
CleanupAfterError_NoDelete ==
    /\ pc = "cleanupErr"
    /\ result' = [kind |-> "error", err |-> err]
    /\ pc' = "done"
    /\ UNCHANGED << auxVars, assemblyVars, requests, modelFallbacks, proposalsFile, generated, uploads, now, nextId, args,
                    proposal, markdownContent, saved, fileContent, attemptCount,
                    serviceCalls, analysis, err, writeResult, removeResult, storeBefore >>

CleanupAfterError ==
    /\ pc = "cleanupErr"
    /\ \E removeOk \in BOOLEAN : DeleteUploadedFile(args.filePath, removeOk)
    /\ result' = [kind |-> "error", err |-> err]
    /\ pc' = "done"
    /\ UNCHANGED << auxVars, assemblyVars, requests, modelFallbacks, proposalsFile, generated, now, nextId, args, proposal,
                    markdownContent, saved, fileContent, attemptCount, serviceCalls,
                    analysis, err, writeResult, storeBefore >>

\* the call has returned or thrown; its frame is gone
Return ==
    /\ pc = "done"
    /\ pc' = "idle"
    /\ args' = NoArgs
    /\ proposal' = NoProposal
    /\ markdownContent' = << >>
    /\ saved' = << >>
    /\ fileContent' = << >>
    /\ attemptCount' = 0
    /\ serviceCalls' = << >>
    /\ analysis' = NoAnalysis
    /\ err' = NoError
    /\ writeResult' = "none"
    /\ removeResult' = "none"
    /\ result' = NoResult
    /\ storeBefore' = << >>
    /\ UNCHANGED << auxVars, assemblyVars, requests, modelFallbacks, proposalsFile, generated, uploads, now, nextId >>

Next ==
    \/ \E u \in Users : EnsureSeedProposals(u)
    \/ \E u \in Users, n \in ProposalNames : CreateProposal(u, n)
    \/ \E u \in Users, id \in 1..MaxProposals : StartUpload(u, id)
    \/ LoadProposal
    \/ ConvertToMarkdown
    \/ SaveGeneratedFileOk
    \/ SaveGeneratedFileFails
    \/ ReadSourceOk
    \/ ReadSourceFails
    \/ AllModelsFailed
    \/ CallModelFails
    \/ \E text \in ServiceTexts : CallModelResponds(text)
    \/ AssembleOk
    \/ AssembleFails
    \/ UpdateAndSaveProposal
    \/ CleanupAfterSuccess
    \/ CleanupAfterError
    \/ Return

Spec == Init /\ [][Next]_vars

(***************************************************************************)
(* analyzeWithFallback on its own: any ordered list of identifiers, any    *)
(* outcome of each call                                                    *)
(***************************************************************************)
InitFallback ==
    /\ modelFallbacks \in ModelLists
    /\ proposalsFile = << >>
    /\ generated = << >>
    /\ uploads = {}
    /\ now = 0
    /\ nextId = 1
    /\ pc = "analyzeWithFallback"
    /\ args = NoArgs
    /\ proposal = NoProposal
    /\ markdownContent = << >>
    /\ saved = << >>
    /\ fileContent = << "markdown of upload", 0 >>
    /\ attemptCount = 0
    /\ serviceCalls = << >>
    /\ analysis = NoAnalysis
    /\ err = NoError
    /\ writeResult = "none"
    /\ removeResult = "none"
    /\ result = NoResult
    /\ storeBefore = << >>
    /\ requests = [r \in Requests |-> NoFrame]
    /\ asmAnalysis = EmptyAnalysis
    /\ asmGiven = EmptyAnalysis
    /\ asmDocuments = << >>
    /\ asmPrevious = << >>
    /\ InitAux

NextFallback ==
    \/ AllModelsFailed
    \/ CallModelFails
    \/ \E text \in RawTexts : CallModelResponds(text)

SpecFallback == InitFallback /\ [][NextFallback]_vars

\* every generateContent call eventually returns or throws, and the throw of
\* line 228 is taken as soon as it is reached
SpecFallbackLive == SpecFallback /\ WF_vars(NextFallback)


(***************************************************************************)
(* The three document generators applied to an Analysis (lines 260-262)    *)
(***************************************************************************)
InitAssemble ==
    /\ modelFallbacks = << AllModelNames[1] >>
    /\ proposalsFile = << >>
    /\ generated = << >>
    /\ uploads = {}
    /\ now = 0
    /\ nextId = 1
    /\ pc = "idle"
    /\ args = NoArgs
    /\ proposal = NoProposal
    /\ markdownContent = << >>
    /\ saved = << >>
    /\ fileContent = << >>
    /\ attemptCount = 0
    /\ serviceCalls = << >>
    /\ analysis = NoAnalysis
    /\ err = NoError
    /\ writeResult = "none"
    /\ removeResult = "none"
    /\ result = NoResult
    /\ storeBefore = << >>
    /\ requests = [r \in Requests |-> NoFrame]
    /\ asmAnalysis \in Analyses
    /\ asmGiven = asmAnalysis
    /\ asmDocuments = << >>
    /\ asmPrevious = << >>
    /\ InitAux

\* The caller keeps the document a generator returned; a second call of the
\* same generator on the same Analysis object moves the first document aside.
\* No generator assigns to a field of its argument.
Keep(kind, document) ==
    /\ kind \notin DOMAIN asmPrevious
    /\ asmDocuments' = [k \in DOMAIN asmDocuments \cup {kind} |->
                            IF k = kind THEN document ELSE asmDocuments[k]]
    /\ asmPrevious' = IF kind \in DOMAIN asmDocuments
                      THEN asmPrevious @@ (kind :> asmDocuments[kind])
                      ELSE asmPrevious
    /\ UNCHANGED << auxVars, asmGiven, requests, modelFallbacks, proposalsFile, generated, uploads,
                    now, nextId, pc, callVars >>

GenerateNunjucksTemplate ==
    /\ Keep("template", GenerateNunjucksTemplateOf(asmAnalysis))
    /\ UNCHANGED asmAnalysis

GenerateVariableTemplate ==
    /\ Keep("variables", GenerateVariableTemplateOf(asmAnalysis))
    /\ UNCHANGED asmAnalysis

GenerateRequirementsMarkdown_Consuming ==
    /\ Keep("requirements", GenerateRequirementsMarkdownOf(asmAnalysis))
    /\ asmAnalysis' = [asmAnalysis EXCEPT !.questions = << >>]

GenerateRequirementsMarkdown ==
    /\ Keep("requirements", GenerateRequirementsMarkdownOf(asmAnalysis))
    /\ UNCHANGED asmAnalysis

NextAssemble ==
    \/ GenerateNunjucksTemplate
    \/ GenerateVariableTemplate
    \/ GenerateRequirementsMarkdown

SpecAssemble == InitAssemble /\ [][NextAssemble]_vars

(***************************************************************************)
(* Request frames: the calls of ProposalService made on behalf of HTTP     *)
(* requests.  Each frame advances one await at a time, so the frames of    *)
(* two requests can interleave at every await.                             *)
(***************************************************************************)
ProposalNotFound(op) == [msg |-> "Proposal not found", at |-> op]

ArtifactNotFound == [msg |-> "Artifact not found", at |-> "updateArtifact"]

FileNotFound == [msg |-> "Failed to read file: File not found", at |-> "getGeneratedFile"]

ReadFileError == [msg |-> "Failed to read file: EIO", at |-> "getGeneratedFile"]

UpdateFileError == [msg |-> "Failed to update file", at |-> "updateGeneratedFile"]

DuplicateNameError ==
    [msg |-> "A proposal with this name already exists. Choose a different name.",
     at |-> "createProposal"]

LastProposalError ==
    [msg |-> "At least one proposal task is required. Create another proposal before deleting this one.",
     at |-> "deleteProposal"]

RecordNotFound == [msg |-> "Proposal not found", at |-> "deleteProposalRecord"]

\* responses of the service inside a request frame: a complete JSON object
\* and one without the technical, compliance and deliverables lists
FrameTexts ==
    { << "{", "M", "O", "R", "E", "C", "Q", "P", "}" >>,
      << "{", "M", "O", "r", "E", "C", "Q", "P", "}" >> }

\* the file names asked for by downloadArtifact and updateArtifact
FileNames ==
    { << "proposal-1", "-source-document.md" >>, << "proposal-1", "-notes.md" >> }

NewContents == { << "edited" >> }

\* the user whose proposals the requests work on, and the name of the
\* proposal created next to the seeded "Proposal 1"
Owners == {"u1"}

NewNames == {"Big Bid"}

NewFrame(op, firstPc, userId, proposalId) ==
    [NoFrame EXCEPT !.op = op, !.pc = firstPc, !.userId = userId,
                    !.proposalId = proposalId,
                    !.before = [store |-> proposalsFile, files |-> generated]]

SetFrame(r, f) == requests' = [requests EXCEPT ![r] = f]

Log(f, call) == [f EXCEPT !.io = Append(@, call)]

\* the call throws to its caller
Fail(f, e) == [f EXCEPT !.err = e, !.result = [kind |-> "error", err |-> e], !.pc = "done"]

\* the call returns to its caller
Succeed(f) == [f EXCEPT !.result = [kind |-> "ok", err |-> NoError], !.pc = "done"]

\* a throw inside the try block of processRFPDocument
Catch(f, e) == [f EXCEPT !.err = e, !.pc = "catch"]

At(r, op, at) == requests[r].op = op /\ requests[r].pc = at

(***************************************************************************)
(* processRFPDocument in a request frame                                   *)
(***************************************************************************)
BeginProcessRFPDocument(r, userId, proposalId) ==
    /\ requests[r].op = "none"
    /\ now < MaxUploads
    /\ now' = now + 1
    /\ uploads' = uploads \cup {now'}
    /\ SetFrame(r, [NewFrame("processRFPDocument", "getProposalRecord", userId, proposalId)
                       EXCEPT !.filePath = now', !.name = "rfp.txt"])
    /\ UNCHANGED << auxVars, assemblyVars, modelFallbacks, proposalsFile, generated, nextId, pc, callVars >>

UploadGetProposalRecord(r, readOk) ==
    /\ At(r, "processRFPDocument", "getProposalRecord")
    /\ LET f == Log(requests[r], "proposals.read")
           found == GetProposalRecord(ReadFile(readOk), f.userId, f.proposalId)
       IN  SetFrame(r, IF found = NoProposal
                       THEN Catch(f, NotFoundError)
                       ELSE [f EXCEPT !.proposal = found, !.pc = "convertToMarkdown"])
    /\ UNCHANGED << auxVars, assemblyVars, modelFallbacks, proposalsFile, generated, uploads, now, nextId, pc,
                    callVars >>

\* convertToMarkdown always yields a text for the uploaded file
UploadConvertToMarkdown(r) ==
    /\ At(r, "processRFPDocument", "convertToMarkdown")
    /\ SetFrame(r, [Log(requests[r], "uploads.read") EXCEPT !.pc = "saveSource"])
    /\ UNCHANGED << auxVars, assemblyVars, modelFallbacks, proposalsFile, generated, uploads, now, nextId, pc,
                    callVars >>

\* saveGeneratedFile; after the last of the four files lines 287-340 update
\* the loaded record
UploadSaveGeneratedFile(r, writeOk) ==
    /\ requests[r].op = "processRFPDocument"
    /\ requests[r].pc \in SaveSteps
    /\ LET f == Log(requests[r], "generated.write")
           step == f.pc
           fileName == << SafeBaseName(f.proposal.name), StepSuffix(step) >>
           path == FilePath(f.proposalId, fileName)
           content == ContentOf(step, << "markdown of upload", f.filePath >>, f.analysis)
           files == Append(f.saved, [id |-> << now, fileName >>, name |-> fileName,
                                     path |-> path, type |-> StepType(step),
                                     createdAt |-> now])
       IN  IF writeOk
           THEN /\ generated' = WriteGenerated(path, content, now)
                /\ SetFrame(r, [f EXCEPT
                       !.saved = files,
                       !.proposal = IF step = "saveRequirements"
                                    THEN UpdateProposal(@, f.name, files, f.analysis, now)
                                    ELSE @,
                       !.pc = StepAfter(step)])
           ELSE /\ SetFrame(r, Catch(f, SaveFileError))
                /\ UNCHANGED generated
    /\ UNCHANGED << auxVars, assemblyVars, modelFallbacks, proposalsFile, uploads, now, nextId, pc, callVars >>

\* analyzeRFPDocument returns the Analysis of the first response (the call for
\* identifier k), then the three documents are assembled synchronously
UploadAnalyzeOk(r, text, k) ==
    /\ At(r, "processRFPDocument", "readSource")
    /\ k \in 1..Len(modelFallbacks)
    /\ LET f == Log(Log(requests[r], "generated.read"), "generateContent")
           a == AnalysisOfResponse(text, modelFallbacks[k])
       IN  SetFrame(r,
              IF VariableTemplateThrows(a)
              THEN Catch([f EXCEPT !.analysis = a], TypeErrorIn("generateVariableTemplate"))
              ELSE IF RequirementsMarkdownThrows(a)
              THEN Catch([f EXCEPT !.analysis = a], TypeErrorIn("generateRequirementsMarkdown"))
              ELSE [f EXCEPT !.analysis = a, !.pc = "saveTemplate"])
    /\ UNCHANGED << auxVars, assemblyVars, modelFallbacks, proposalsFile, generated, uploads, now, nextId, pc,
                    callVars >>

\* analyzeRFPDocument throws: the source cannot be read back, or every
\* identifier has failed
UploadAnalyzeFails(r, e) ==
    /\ At(r, "processRFPDocument", "readSource")
    /\ e \in {ReadSourceError, ExhaustedError}
    /\ LET f == Log(requests[r], "generated.read")
       IN  SetFrame(r, Catch(IF e = ExhaustedError THEN Log(f, "generateContent") ELSE f, e))
    /\ UNCHANGED << auxVars, assemblyVars, modelFallbacks, proposalsFile, generated, uploads, now, nextId, pc,
                    callVars >>

\* deleteUploadedFile on the success path (line 346) and in the catch block
\* (line 357)
UploadDeleteUploadedFile(r, removeOk) ==
    /\ requests[r].op = "processRFPDocument"
    /\ requests[r].pc \in {"deleteUploadedFile", "catch"}
    /\ LET f == Log(requests[r], "uploads.remove")
       IN  /\ uploads' = IF removeOk THEN uploads \ {f.filePath} ELSE uploads
           /\ SetFrame(r, IF f.pc = "catch" THEN Fail(f, f.err) ELSE Succeed(f))
    /\ UNCHANGED << auxVars, assemblyVars, modelFallbacks, proposalsFile, generated, now, nextId, pc, callVars >>

(***************************************************************************)
(* saveProposalRecord and saveAllProposals, shared by processRFPDocument,  *)
(* updateArtifact and createProposal; the record to save is f.proposal     *)
(***************************************************************************)
SaveProposalRecordRead(r, readOk) ==
    /\ requests[r].pc = "saveProposalRecord"
    /\ LET f == Log(requests[r], "proposals.read")
       IN  SetFrame(r, [f EXCEPT !.proposals = SaveProposalRecord(ReadFile(readOk), f.proposal),
                                 !.pc = "saveAllProposals"])
    /\ UNCHANGED << auxVars, assemblyVars, modelFallbacks, proposalsFile, generated, uploads, now, nextId, pc,
                    callVars >>

\* the value of writeFile is ignored by saveProposalRecord and
\* deleteProposalRecord, so the caller goes on either way
SaveAllProposals(r, writeOk) ==
    /\ requests[r].pc = "saveAllProposals"
    /\ LET f == Log(requests[r], "proposals.write")
       IN  /\ proposalsFile' = WriteFile(writeOk, f.proposals)
           /\ SetFrame(r, IF f.op = "processRFPDocument"
                          THEN [f EXCEPT !.pc = "deleteUploadedFile"]
                          ELSE Succeed(f))
    /\ UNCHANGED << auxVars, assemblyVars, modelFallbacks, generated, uploads, now, nextId, pc, callVars >>

(***************************************************************************)
(* createProposal and deleteProposal in a request frame                    *)
(***************************************************************************)
CreatesInFlight ==
    Cardinality({ q \in Requests : At(q, "createProposal", "getProposalsByUser") })

BeginCreateProposal(r, userId, name) ==
    /\ requests[r].op = "none"
    /\ nextId + CreatesInFlight <= MaxProposals
    /\ SetFrame(r, [NewFrame("createProposal", "getProposalsByUser", userId, 0)
                       EXCEPT !.name = name])
    /\ UNCHANGED << auxVars, assemblyVars, modelFallbacks, proposalsFile, generated, uploads, now, nextId, pc,
                    callVars >>

\* lines 196-213: the duplicate test and _buildProposal follow the read
CreateGetProposalsByUser(r, readOk) ==
    /\ At(r, "createProposal", "getProposalsByUser")
    /\ LET f == Log(requests[r], "proposals.read")
           proposals == GetProposalsByUser(ReadFile(readOk), f.userId)
           duplicate == \E i \in DOMAIN proposals :
                           ToLowerCase(proposals[i].name) = ToLowerCase(f.name)
       IN  IF duplicate
           THEN SetFrame(r, Fail(f, DuplicateNameError)) /\ UNCHANGED nextId
           ELSE /\ SetFrame(r, [f EXCEPT !.proposal = BuildProposal(nextId, f.userId, f.name, now),
                                         !.proposalId = nextId,
                                         !.pc = "saveProposalRecord"])
                /\ nextId' = nextId + 1
    /\ UNCHANGED << auxVars, assemblyVars, modelFallbacks, proposalsFile, generated, uploads, now, pc, callVars >>

BeginDeleteProposal(r, userId, proposalId) ==
    /\ requests[r].op = "none"
    /\ SetFrame(r, NewFrame("deleteProposal", "getProposalsByUser", userId, proposalId))
    /\ UNCHANGED << auxVars, assemblyVars, modelFallbacks, proposalsFile, generated, uploads, now, nextId, pc,
                    callVars >>

\* variant: the last proposal of a user may be deleted
DeleteGetProposalsByUser_NoMinimum(r, readOk) ==
    /\ At(r, "deleteProposal", "getProposalsByUser")
    /\ SetFrame(r, [Log(requests[r], "proposals.read") EXCEPT !.pc = "deleteGeneratedFiles"])
    /\ UNCHANGED << auxVars, assemblyVars, modelFallbacks, proposalsFile, generated, uploads, now, nextId, pc,
                    callVars >>

\* lines 219-222
DeleteGetProposalsByUser(r, readOk) ==
    /\ At(r, "deleteProposal", "getProposalsByUser")
    /\ LET f == Log(requests[r], "proposals.read")
           proposals == GetProposalsByUser(ReadFile(readOk), f.userId)
       IN  SetFrame(r, IF Len(proposals) <= 1
                       THEN Fail(f, LastProposalError)
                       ELSE [f EXCEPT !.pc = "deleteGeneratedFiles"])
    /\ UNCHANGED << auxVars, assemblyVars, modelFallbacks, proposalsFile, generated, uploads, now, nextId, pc,
                    callVars >>

\* fs.remove(generated/<proposalId>) inside try/catch
DeleteGeneratedFiles(r, removeOk) ==
    /\ At(r, "deleteProposal", "deleteGeneratedFiles")
    /\ LET f == Log(requests[r], "generated.remove")
           kept == { p \in DOMAIN generated : p[1] # f.proposalId }
       IN  /\ generated' = IF removeOk THEN [p \in kept |-> generated[p]] ELSE generated
           /\ SetFrame(r, [f EXCEPT !.pc = "deleteProposalRecord"])
    /\ UNCHANGED << auxVars, assemblyVars, modelFallbacks, proposalsFile, uploads, now, nextId, pc, callVars >>

\* deleteProposalRecord: read, filter, throw when nothing was filtered out
DeleteProposalRecordRead(r, readOk) ==
    /\ At(r, "deleteProposal", "deleteProposalRecord")
    /\ LET f == Log(requests[r], "proposals.read")
           proposals == ReadFile(readOk)
           filtered == SelectSeq(proposals,
                           LAMBDA p : ~ (p.id = f.proposalId /\ p.userId = f.userId))
       IN  SetFrame(r, IF Len(filtered) = Len(proposals)
                       THEN Fail(f, RecordNotFound)
                       ELSE [f EXCEPT !.proposals = filtered, !.pc = "saveAllProposals"])
    /\ UNCHANGED << auxVars, assemblyVars, modelFallbacks, proposalsFile, generated, uploads, now, nextId, pc,
                    callVars >>

(***************************************************************************)
(* getProposalArtifacts, downloadArtifact and updateArtifact               *)
(***************************************************************************)
BeginGetProposalArtifacts(r, userId, proposalId) ==
    /\ requests[r].op = "none"
    /\ SetFrame(r, NewFrame("getProposalArtifacts", "getProposalRecord", userId, proposalId))
    /\ UNCHANGED << auxVars, assemblyVars, modelFallbacks, proposalsFile, generated, uploads, now, nextId, pc,
                    callVars >>

ArtifactsGetProposalRecord(r, readOk) ==
    /\ At(r, "getProposalArtifacts", "getProposalRecord")
    /\ LET f == Log(requests[r], "proposals.read")
           found == GetProposalRecord(ReadFile(readOk), f.userId, f.proposalId)
       IN  SetFrame(r, IF found = NoProposal
                       THEN Fail(f, ProposalNotFound("getProposalArtifacts"))
                       ELSE Succeed([f EXCEPT !.proposal = found,
                                              !.returned = found.outputs]))
    /\ UNCHANGED << auxVars, assemblyVars, modelFallbacks, proposalsFile, generated, uploads, now, nextId, pc,
                    callVars >>

BeginDownloadArtifact(r, userId, proposalId, fileName) ==
    /\ requests[r].op = "none"
    /\ SetFrame(r, [NewFrame("downloadArtifact", "getProposalRecord", userId, proposalId)
                       EXCEPT !.fileName = fileName])
    /\ UNCHANGED << auxVars, assemblyVars, modelFallbacks, proposalsFile, generated, uploads, now, nextId, pc,
                    callVars >>

DownloadGetProposalRecord(r, readOk) ==
    /\ At(r, "downloadArtifact", "getProposalRecord")
    /\ LET f == Log(requests[r], "proposals.read")
           found == GetProposalRecord(ReadFile(readOk), f.userId, f.proposalId)
       IN  SetFrame(r, IF found = NoProposal
                       THEN Fail(f, ProposalNotFound("downloadArtifact"))
                       ELSE [f EXCEPT !.proposal = found, !.pc = "getGeneratedFile"])
    /\ UNCHANGED << auxVars, assemblyVars, modelFallbacks, proposalsFile, generated, uploads, now, nextId, pc,
                    callVars >>

\* getGeneratedFile: pathExists, readFile, stat on generated/<proposalId>/<fileName>
DownloadGetGeneratedFile(r, readOk) ==
    /\ At(r, "downloadArtifact", "getGeneratedFile")
    /\ LET f == Log(requests[r], "generated.read")
           path == FilePath(f.proposalId, f.fileName)
       IN  SetFrame(r, IF path \notin DOMAIN generated THEN Fail(f, FileNotFound)
                       ELSE IF ~ readOk THEN Fail(f, ReadFileError)
                       ELSE Succeed([f EXCEPT !.returned = generated[path].content]))
    /\ UNCHANGED << auxVars, assemblyVars, modelFallbacks, proposalsFile, generated, uploads, now, nextId, pc,
                    callVars >>

BeginUpdateArtifact(r, userId, proposalId, fileName, content) ==
    /\ requests[r].op = "none"
    /\ SetFrame(r, [NewFrame("updateArtifact", "getProposalRecord", userId, proposalId)
                       EXCEPT !.fileName = fileName, !.content = content])
    /\ UNCHANGED << auxVars, assemblyVars, modelFallbacks, proposalsFile, generated, uploads, now, nextId, pc,
                    callVars >>

\* the position of the first artifact entry with that name, 0 when there is none
FindArtifact(p, fileName) ==
    LET hits == { i \in DOMAIN p.outputs : p.outputs[i].name = fileName }
    IN  IF hits = {} THEN 0 ELSE CHOOSE i \in hits : \A j \in hits : i <= j

\* lines 381-390
UpdateGetProposalRecord(r, readOk) ==
    /\ At(r, "updateArtifact", "getProposalRecord")
    /\ LET f == Log(requests[r], "proposals.read")
           found == GetProposalRecord(ReadFile(readOk), f.userId, f.proposalId)
       IN  SetFrame(r, IF found = NoProposal
                       THEN Fail(f, ProposalNotFound("updateArtifact"))
                       ELSE IF FindArtifact(found, f.fileName) = 0
                       THEN Fail([f EXCEPT !.proposal = found], ArtifactNotFound)
                       ELSE [f EXCEPT !.proposal = found, !.pc = "updateGeneratedFile"])
    /\ UNCHANGED << auxVars, assemblyVars, modelFallbacks, proposalsFile, generated, uploads, now, nextId, pc,
                    callVars >>

\* updateGeneratedFile replaces the content of generated/<proposalId>/<fileName>
UpdatedGeneratedFiles(proposalId, fileName, content, t) ==
    WriteGenerated(FilePath(proposalId, fileName), content, t)

\* variant: the record is written back with a fresh checklist
TouchArtifact_FreshChecklist(p, i, size, t) ==
    [p EXCEPT !.outputs[i].size = size, !.outputs[i].updatedAt = t, !.updatedAt = t,
              !.subtasks = BuildSubtasks]

\* lines 396-400: the artifact's size and updatedAt and the record's updatedAt
TouchArtifact(p, i, size, t) ==
    [p EXCEPT !.outputs[i].size = size, !.outputs[i].updatedAt = t, !.updatedAt = t]

\* lines 393-401: the file is written, then the loaded record is updated
UpdateGeneratedFile(r, writeOk) ==
    /\ At(r, "updateArtifact", "updateGeneratedFile")
    /\ LET f == Log(requests[r], "generated.write")
           i == FindArtifact(f.proposal, f.fileName)
       IN  IF writeOk
           THEN /\ generated' = UpdatedGeneratedFiles(f.proposalId, f.fileName, f.content, now)
                /\ SetFrame(r, [f EXCEPT
                       !.proposal = TouchArtifact(@, i, Len(f.content), now),
                       !.pc = "saveProposalRecord"])
           ELSE /\ SetFrame(r, Fail(f, UpdateFileError))
                /\ UNCHANGED generated
    /\ UNCHANGED << auxVars, assemblyVars, modelFallbacks, proposalsFile, uploads, now, nextId, pc, callVars >>

\* the response has been sent; the frame is gone
Finish(r) ==
    /\ requests[r].pc = "done"
    /\ SetFrame(r, NoFrame)
    /\ UNCHANGED << auxVars, assemblyVars, modelFallbacks, proposalsFile, generated, uploads, now, nextId, pc,
                    callVars >>

Quiet == \A r \in Requests : requests[r].op = "none"

\* register, login and GET /api/proposals seed a user that has no proposal
SeedUser(userId) == Quiet /\ EnsureSeedProposals(userId)

(***************************************************************************)
(* The service calls one request at a time.  Reads and writes of           *)
(* proposals.json, the analysis and the reads, writes and removals of      *)
(* generated files succeed or fail; the per-file failures of               *)
(* saveGeneratedFile and of the raw upload's removal are those of Spec.    *)
(***************************************************************************)
NextOps ==
    \E r \in {"r1"} :
        \/ \E u \in Owners : SeedUser(u)
        \/ \E u \in Owners, n \in NewNames : BeginCreateProposal(r, u, n)
        \/ \E u \in Users, id \in 1..MaxProposals : BeginDeleteProposal(r, u, id)
        \/ \E u \in Users, id \in 1..MaxProposals : BeginProcessRFPDocument(r, u, id)
        \/ \E u \in Users, id \in 1..MaxProposals : BeginGetProposalArtifacts(r, u, id)
        \/ \E u \in Users, id \in 1..MaxProposals, fn \in FileNames :
              BeginDownloadArtifact(r, u, id, fn)
        \/ \E u \in Users, id \in 1..MaxProposals, fn \in FileNames, c \in NewContents :
              BeginUpdateArtifact(r, u, id, fn, c)
        \/ \E ok \in BOOLEAN : CreateGetProposalsByUser(r, ok)
        \/ \E ok \in BOOLEAN : DeleteGetProposalsByUser(r, ok)
        \/ \E ok \in BOOLEAN : DeleteGeneratedFiles(r, ok)
        \/ \E ok \in BOOLEAN : DeleteProposalRecordRead(r, ok)
        \/ \E ok \in BOOLEAN : UploadGetProposalRecord(r, ok)
        \/ UploadConvertToMarkdown(r)
        \/ UploadSaveGeneratedFile(r, TRUE)
        \/ \E text \in FrameTexts, k \in 1..MaxModels : UploadAnalyzeOk(r, text, k)
        \/ \E e \in {ReadSourceError, ExhaustedError} : UploadAnalyzeFails(r, e)
        \/ UploadDeleteUploadedFile(r, TRUE)
        \/ \E ok \in BOOLEAN : ArtifactsGetProposalRecord(r, ok)
        \/ \E ok \in BOOLEAN : DownloadGetProposalRecord(r, ok)
        \/ \E ok \in BOOLEAN : DownloadGetGeneratedFile(r, ok)
        \/ \E ok \in BOOLEAN : UpdateGetProposalRecord(r, ok)
        \/ \E ok \in BOOLEAN : UpdateGeneratedFile(r, ok)
        \/ \E ok \in BOOLEAN : SaveProposalRecordRead(r, ok)
        \/ \E ok \in BOOLEAN : SaveAllProposals(r, ok)
        \/ Finish(r)

SpecOps == Init /\ [][NextOps]_vars

(***************************************************************************)
(* Two requests interleaved at every await, all I/O calls succeeding:      *)
(* uploads next to proposal creation, and deletions next to creation       *)
(***************************************************************************)
NextConcurrentUploads ==
    \/ \E u \in Owners : SeedUser(u)
    \/ \E r \in Requests :
        \/ \E u \in Owners, n \in NewNames : BeginCreateProposal(r, u, n)
        \/ \E u \in Owners, id \in 1..MaxProposals : BeginProcessRFPDocument(r, u, id)
        \/ CreateGetProposalsByUser(r, TRUE)
        \/ UploadGetProposalRecord(r, TRUE)
        \/ UploadConvertToMarkdown(r)
        \/ UploadSaveGeneratedFile(r, TRUE)
        \/ \E text \in FrameTexts, k \in 1..MaxModels : UploadAnalyzeOk(r, text, k)
        \/ \E e \in {ReadSourceError, ExhaustedError} : UploadAnalyzeFails(r, e)
        \/ UploadDeleteUploadedFile(r, TRUE)
        \/ SaveProposalRecordRead(r, TRUE)
        \/ SaveAllProposals(r, TRUE)
        \/ Finish(r)

SpecConcurrentUploads == Init /\ [][NextConcurrentUploads]_vars

NextConcurrentDeletes ==
    \/ \E u \in Owners : SeedUser(u)
    \/ \E r \in Requests :
        \/ \E u \in Owners, n \in ProposalNames : BeginCreateProposal(r, u, n)
        \/ \E u \in Owners, id \in 1..MaxProposals : BeginDeleteProposal(r, u, id)
        \/ CreateGetProposalsByUser(r, TRUE)
        \/ DeleteGetProposalsByUser(r, TRUE)
        \/ DeleteGeneratedFiles(r, TRUE)
        \/ DeleteProposalRecordRead(r, TRUE)
        \/ SaveProposalRecordRead(r, TRUE)
        \/ SaveAllProposals(r, TRUE)
        \/ Finish(r)

SpecConcurrentDeletes == Init /\ [][NextConcurrentDeletes]_vars

(***************************************************************************)
(* An upload in request r1 interleaved at every await with an              *)
(* updateArtifact in request r2, all I/O calls succeeding                   *)
(***************************************************************************)
NextConcurrentUpdate ==
    \/ \E u \in Owners : SeedUser(u)
    \/ \E u \in Owners, id \in 1..MaxProposals : BeginProcessRFPDocument("r1", u, id)
    \/ \E u \in Owners, id \in 1..MaxProposals, fn \in FileNames, c \in NewContents :
          BeginUpdateArtifact("r2", u, id, fn, c)
    \/ \E r \in Requests :
        \/ UploadGetProposalRecord(r, TRUE)
        \/ UploadConvertToMarkdown(r)
        \/ UploadSaveGeneratedFile(r, TRUE)
        \/ \E text \in FrameTexts, k \in 1..MaxModels : UploadAnalyzeOk(r, text, k)
        \/ UploadDeleteUploadedFile(r, TRUE)
        \/ UpdateGetProposalRecord(r, TRUE)
        \/ UpdateGeneratedFile(r, TRUE)
        \/ SaveProposalRecordRead(r, TRUE)
        \/ SaveAllProposals(r, TRUE)
        \/ Finish(r)

SpecConcurrentUpdate == Init /\ [][NextConcurrentUpdate]_vars

(***************************************************************************)
(* Two users, one request at a time, all I/O calls succeeding: u1 has the   *)
(* seeded proposal and creates a second one, the other user is seeded       *)
(* after that and uploads, and both call deleteProposal                     *)
(***************************************************************************)
\* register, login or GET /api/proposals of a user who comes after the
\* proposals of the first user
SeedLaterUser(userId) ==
    /\ Quiet
    /\ Idle
    /\ nextId = MaxProposals + 1
    /\ LET existing == GetProposalsByUser(ReadFile(TRUE), userId)
           seed == BuildProposal(nextId, userId, "Proposal 1", now)
       IN  /\ Len(existing) = 0
           /\ proposalsFile' = WriteFile(TRUE, SaveProposalRecord(ReadFile(TRUE), seed))
           /\ nextId' = nextId + 1
    /\ UNCHANGED << auxVars, assemblyVars, requests, modelFallbacks, generated, uploads, now, pc,
                    callVars >>

NextDeleteOfOthers ==
    \E r \in {"r1"} :
        \/ \E u \in Owners : SeedUser(u)
        \/ \E u \in Users \ Owners : SeedLaterUser(u)
        \/ \E u \in Owners, n \in NewNames : BeginCreateProposal(r, u, n)
        \/ \E u \in Users \ Owners, id \in 1..(MaxProposals + 1) :
              BeginProcessRFPDocument(r, u, id)
        \/ \E u \in Users, id \in 1..(MaxProposals + 1) : BeginDeleteProposal(r, u, id)
        \/ CreateGetProposalsByUser(r, TRUE)
        \/ DeleteGetProposalsByUser(r, TRUE)
        \/ DeleteGeneratedFiles(r, TRUE)
        \/ DeleteProposalRecordRead(r, TRUE)
        \/ UploadGetProposalRecord(r, TRUE)
        \/ UploadConvertToMarkdown(r)
        \/ UploadSaveGeneratedFile(r, TRUE)
        \/ \E text \in FrameTexts : UploadAnalyzeOk(r, text, 1)
        \/ UploadDeleteUploadedFile(r, TRUE)
        \/ SaveProposalRecordRead(r, TRUE)
        \/ SaveAllProposals(r, TRUE)
        \/ Finish(r)

SpecDeleteOfOthers == Init /\ [][NextDeleteOfOthers]_vars

(***************************************************************************)
(* The markdown cache on its own: puts, gets and the passing of time        *)
(***************************************************************************)
\* put is best-effort: the entry is written or, on a failure, it is not, and
\* the caller gets an acknowledgement either way.  A new entry supersedes the
\* one stored under the same work item and key.
CachePut(workItem, key, text, persistOk) ==
    /\ cacheEntries' =
          IF persistOk
          THEN [e \in DOMAIN cacheEntries \cup {<< workItem, key >>} |->
                   IF e = << workItem, key >>
                   THEN [text |-> text, createdAt |-> cacheClock]
                   ELSE cacheEntries[e]]
          ELSE cacheEntries
    /\ cacheReturned' = [op |-> "put", workItem |-> workItem, key |-> key,
                         readable |-> TRUE, value |-> "ack"]
    /\ UNCHANGED << pipelineVars, workflowVars, appVars, loginVars, serverVars, cacheClock >>

CacheGet(workItem, key, readable) ==
    /\ cacheReturned' = [op |-> "get", workItem |-> workItem, key |-> key,
                         readable |-> readable,
                         value |-> CacheLookup(cacheEntries, cacheClock, workItem, key,
                                               readable)]
    /\ UNCHANGED << pipelineVars, workflowVars, appVars, loginVars, serverVars, cacheEntries, cacheClock >>

\* an hour passes
CacheTick ==
    /\ cacheClock < MaxHours
    /\ cacheClock' = cacheClock + 1
    /\ UNCHANGED << pipelineVars, workflowVars, appVars, loginVars, serverVars, cacheEntries, cacheReturned >>

NextCache ==
    \/ \E w \in CacheWorkItems, k \in CacheKeys, t \in CacheTexts, ok \in BOOLEAN :
          CachePut(w, k, t, ok)
    \/ \E w \in CacheWorkItems, k \in CacheKeys, ok \in BOOLEAN : CacheGet(w, k, ok)
    \/ CacheTick

SpecCache == Init /\ [][NextCache]_vars

(***************************************************************************)
(* server.js routes.  A handler runs as one step; what the file system and  *)
(* the text-generation service do is an input of the step.                  *)
(***************************************************************************)
\* req.session.currentSessionId || req.session.id
SessionIdOf(c) ==
    IF httpSessions[c].currentSessionId # 0 THEN httpSessions[c].currentSessionId ELSE c

GetSessionFiles_AllExist(dirs, sessionId) == [k \in DOMAIN SESSION_FILES |-> TRUE]

\* getSessionFiles, lines 168-183: which of the SESSION_FILES exist
GetSessionFiles(dirs, sessionId) ==
    [k \in DOMAIN SESSION_FILES |->
        sessionId \in DOMAIN dirs /\ SESSION_FILES[k] \in dirs[sessionId]]

\* fs.ensureDirSync(sessions/<sessionId>)
EnsureSessionDir(dirs, sessionId) ==
    IF sessionId \in DOMAIN dirs THEN dirs ELSE dirs @@ (sessionId :> {})

\* fs.writeFile into a directory that exists
WriteFiles(dirs, sessionId, names) == [dirs EXCEPT ![sessionId] = @ \cup names]

RemoveDir(dirs, sessionId) == [d \in DOMAIN dirs \ {sessionId} |-> dirs[d]]

\* the client whose request made each directory
CreatorsOf(dirs, c) ==
    [d \in DOMAIN dirs |-> IF d \in DOMAIN dirCreator THEN dirCreator[d] ELSE c]

HasMeta(sessionId) == sessionId \in DOMAIN sessionsDir /\ SessionMetaName \in sessionsDir[sessionId]

Reply(c, route, status, error) ==
    [NoResponse EXCEPT !.client = c, !.route = route, !.status = status, !.error = error,
                       !.sessionId = SessionIdOf(c)]

UuidLeft == nextUuid < FirstUuid + MaxSessions

\* GET /api/sessions, lines 665-673, with getAllSessions
ListSessions(c) ==
    /\ response' = Reply(c, "GET /api/sessions", 200, "none")
    /\ accessed' = { << d, "read" >> : d \in { e \in DOMAIN sessionsDir : HasMeta(e) } }
    /\ UNCHANGED << pipelineVars, workflowVars, appVars, loginVars, cacheVars, httpSessions, sessionsDir, dirCreator, uploadsDir,
                    nextUuid >>

\* POST /api/sessions and POST /api/session/create, lines 676-731
CreateSession(c, route, name) ==
    /\ UuidLeft
    /\ IF name = ""
       THEN /\ response' = Reply(c, route, 400, "Session name is required")
            /\ accessed' = {}
            /\ UNCHANGED << httpSessions, sessionsDir, dirCreator, nextUuid >>
       ELSE LET dirs == WriteFiles(EnsureSessionDir(sessionsDir, nextUuid), nextUuid,
                                   {SessionMetaName})
            IN  /\ sessionsDir' = dirs
                /\ dirCreator' = CreatorsOf(dirs, c)
                /\ httpSessions' = [httpSessions EXCEPT ![c].currentSessionId = nextUuid]
                /\ nextUuid' = nextUuid + 1
                /\ response' = [Reply(c, route, 200, "none") EXCEPT !.sessionId = nextUuid]
                /\ accessed' = {<< nextUuid, "write" >>}
    /\ UNCHANGED << pipelineVars, workflowVars, appVars, loginVars, cacheVars, uploadsDir >>

\* POST /api/session/select, lines 734-777
SelectSession(c, sessionId, readOk) ==
    /\ IF sessionId = 0
       THEN /\ response' = Reply(c, "POST /api/session/select", 400, "Session ID is required")
            /\ accessed' = {}
            /\ UNCHANGED httpSessions
       ELSE IF sessionId \notin DOMAIN sessionsDir
       THEN /\ response' = Reply(c, "POST /api/session/select", 404, "Session not found")
            /\ accessed' = {}
            /\ UNCHANGED httpSessions
       ELSE LET files == GetSessionFiles(sessionsDir, sessionId)
            IN  /\ httpSessions' =
                      [httpSessions EXCEPT
                          ![c].currentSessionId = sessionId,
                          ![c].orgData = "none",
                          ![c].rfpData = IF files.RFP_VARIABLES /\ readOk
                                         THEN "variables" ELSE "none"]
                /\ response' = [Reply(c, "POST /api/session/select", 200, "none")
                                   EXCEPT !.sessionId = sessionId]
                /\ accessed' =
                      IF HasMeta(sessionId) \/ files.RFP_VARIABLES
                      THEN {<< sessionId, "read" >>} ELSE {}
    /\ UNCHANGED << pipelineVars, workflowVars, appVars, loginVars, cacheVars, sessionsDir, dirCreator, uploadsDir, nextUuid >>

\* POST /api/sessions/clear-all, lines 780-800
ClearAllSessions(c) ==
    /\ UuidLeft
    /\ sessionsDir' = << >>
    /\ dirCreator' = << >>
    /\ httpSessions' = [httpSessions EXCEPT ![c].currentSessionId = nextUuid]
    /\ nextUuid' = nextUuid + 1
    /\ response' = [Reply(c, "POST /api/sessions/clear-all", 200, "none")
                       EXCEPT !.sessionId = nextUuid]
    /\ accessed' = { << d, "delete" >> : d \in DOMAIN sessionsDir }
    /\ UNCHANGED << pipelineVars, workflowVars, appVars, loginVars, cacheVars, uploadsDir >>

\* POST /api/session/delete, lines 803-835
DeleteSession(c, sessionId) ==
    /\ IF sessionId = 0
       THEN /\ response' = Reply(c, "POST /api/session/delete", 400, "Session ID is required")
            /\ accessed' = {}
            /\ UNCHANGED << httpSessions, sessionsDir, dirCreator, nextUuid >>
       ELSE IF sessionId \notin DOMAIN sessionsDir
       THEN /\ response' = Reply(c, "POST /api/session/delete", 404, "Session not found")
            /\ accessed' = {}
            /\ UNCHANGED << httpSessions, sessionsDir, dirCreator, nextUuid >>
       ELSE /\ httpSessions[c].currentSessionId = sessionId => UuidLeft
            /\ sessionsDir' = RemoveDir(sessionsDir, sessionId)
            /\ dirCreator' = RemoveDir(dirCreator, sessionId)
            /\ IF httpSessions[c].currentSessionId = sessionId
               THEN /\ httpSessions' = [httpSessions EXCEPT ![c].currentSessionId = nextUuid,
                                                           ![c].rfpData = "none",
                                                           ![c].orgData = "none"]
                    /\ nextUuid' = nextUuid + 1
               ELSE UNCHANGED << httpSessions, nextUuid >>
            /\ response' = Reply(c, "POST /api/session/delete", 200, "none")
            /\ accessed' = {<< sessionId, "delete" >>}
    /\ UNCHANGED << pipelineVars, workflowVars, appVars, loginVars, cacheVars, uploadsDir >>

\* POST /api/sessions/:sessionId/switch, lines 838-861
SwitchSession(c, sessionId) ==
    /\ IF sessionId \notin DOMAIN sessionsDir
       THEN /\ response' = Reply(c, "POST /api/sessions/:sessionId/switch", 404,
                                 "Session not found")
            /\ accessed' = {}
            /\ UNCHANGED httpSessions
       ELSE /\ httpSessions' = [httpSessions EXCEPT ![c].currentSessionId = sessionId]
            /\ response' = [Reply(c, "POST /api/sessions/:sessionId/switch", 200, "none")
                               EXCEPT !.sessionId = sessionId]
            /\ accessed' = IF HasMeta(sessionId) THEN {<< sessionId, "read" >>} ELSE {}
    /\ UNCHANGED << pipelineVars, workflowVars, appVars, loginVars, cacheVars, sessionsDir, dirCreator, uploadsDir, nextUuid >>

\* multer: no file in the request, a file the filter rejects (the error
\* middleware answers 500), or the file stored in the session directory
Multer(c, route, file, base) ==
    IF file = NoFile THEN [ok |-> FALSE, dirs |-> sessionsDir,
                           reply |-> Reply(c, route, 400, "No file uploaded")]
    ELSE IF ~ FileFilter(file)
    THEN [ok |-> FALSE, dirs |-> sessionsDir,
          reply |-> Reply(c, route, 500, "Internal server error")]
    ELSE [ok |-> TRUE,
          dirs |-> WriteFiles(EnsureSessionDir(sessionsDir, SessionIdOf(c)), SessionIdOf(c),
                              {<< base, file.ext >>}),
          reply |-> Reply(c, route, 200, "none")]

\* POST /api/upload/rfp, lines 864-927.  callsOk is the number of
\* text-generation calls that succeed before one fails (3: none fails).
UploadRfp(c, file, outcome, useCache, callsOk) ==
    LET route == "POST /api/upload/rfp"
        sessionId == SessionIdOf(c)
        stored == Multer(c, route, file, "rfp-original")
        sessionFiles == GetSessionFiles(stored.dirs, sessionId)
        text == ExtractTextFromFile(file.ext, file.mimetype, outcome)
        cached == /\ useCache
                  /\ sessionFiles.RFP_REQUIREMENTS
                  /\ sessionFiles.RFP_VARIABLES
                  /\ sessionFiles.RFP_TEMPLATE
        fail(msg, calls) ==
            [Reply(c, route, 500, msg) EXCEPT !.extracted = text.kind, !.calls = calls]
        done(calls) ==
            [stored.reply EXCEPT !.extracted = "text", !.calls = calls,
                                 !.fromCache = useCache /\ sessionFiles.RFP_REQUIREMENTS]
    IN  /\ IF ~ stored.ok
           THEN /\ response' = stored.reply
                /\ accessed' = {}
                /\ UNCHANGED << httpSessions, sessionsDir, dirCreator >>
           ELSE /\ dirCreator' = CreatorsOf(stored.dirs, c)
                /\ IF text.kind = "error"
                   THEN /\ response' = fail("Failed to process RFP file", 0)
                        /\ sessionsDir' = stored.dirs
                        /\ accessed' = {<< sessionId, "write" >>}
                        /\ UNCHANGED httpSessions
                   ELSE IF cached
                   THEN /\ response' = done(0)
                        /\ sessionsDir' = stored.dirs
                        /\ accessed' = {<< sessionId, "write" >>, << sessionId, "read" >>}
                        /\ httpSessions' = [httpSessions EXCEPT ![c].rfpData = "upload"]
                   ELSE IF callsOk < 3
                   THEN /\ response' = fail("Failed to process RFP file", callsOk + 1)
                        /\ sessionsDir' = stored.dirs
                        /\ accessed' = {<< sessionId, "write" >>}
                        /\ UNCHANGED httpSessions
                   ELSE /\ response' = done(3)
                        /\ sessionsDir' =
                              WriteFiles(stored.dirs, sessionId,
                                         {SESSION_FILES.RFP_REQUIREMENTS,
                                          SESSION_FILES.RFP_VARIABLES,
                                          SESSION_FILES.RFP_TEMPLATE})
                        /\ accessed' = {<< sessionId, "write" >>}
                        /\ httpSessions' = [httpSessions EXCEPT ![c].rfpData = "upload"]
        /\ UNCHANGED << pipelineVars, workflowVars, appVars, loginVars, cacheVars, uploadsDir, nextUuid >>

\* POST /api/upload/organization, lines 931-1008.  callsOk: "none" when
\* analyzeOrganization fails, "analysis" when extractVariablesFromOrganization
\* fails, "unmapped" when only generateRequirementsMapping fails (it returns
\* null), "all" when every call succeeds.
UploadOrganization(c, file, outcome, useCache, callsOk) ==
    LET route == "POST /api/upload/organization"
        sessionId == SessionIdOf(c)
        stored == Multer(c, route, file, "org-original")
        sessionFiles == GetSessionFiles(stored.dirs, sessionId)
        text == ExtractTextFromFile(file.ext, file.mimetype, outcome)
        cached == useCache /\ sessionFiles.ORG_ANALYSIS
        analysed == WriteFiles(stored.dirs, sessionId,
                               {SESSION_FILES.ORG_ANALYSIS}
                                  \cup (IF sessionFiles.RFP_REQUIREMENTS /\ callsOk # "unmapped"
                                        THEN {MappingName} ELSE {}))
        made == IF cached THEN 0 ELSE IF sessionFiles.RFP_REQUIREMENTS THEN 2 ELSE 1
        fail(msg, calls) ==
            [Reply(c, route, 500, msg) EXCEPT !.extracted = text.kind, !.calls = calls]
    IN  /\ IF ~ stored.ok
           THEN /\ response' = stored.reply
                /\ accessed' = {}
                /\ UNCHANGED << httpSessions, sessionsDir, dirCreator >>
           ELSE /\ dirCreator' = CreatorsOf(stored.dirs, c)
                /\ accessed' = {<< sessionId, "write" >>}
                /\ IF ~ sessionFiles.RFP_VARIABLES
                   THEN /\ response' =
                              Reply(c, route, 400,
                                    "Please upload and analyze an RFP document first")
                        /\ sessionsDir' = stored.dirs
                        /\ UNCHANGED httpSessions
                   ELSE IF text.kind = "error"
                   THEN /\ response' = fail("Failed to process organization file", 0)
                        /\ sessionsDir' = stored.dirs
                        /\ UNCHANGED httpSessions
                   ELSE IF ~ cached /\ callsOk = "none"
                   THEN /\ response' = fail("Failed to process organization file", 1)
                        /\ sessionsDir' = stored.dirs
                        /\ UNCHANGED httpSessions
                   ELSE IF callsOk = "analysis"
                   THEN /\ response' = fail("Failed to process organization file", made + 1)
                        /\ sessionsDir' = IF cached THEN stored.dirs ELSE analysed
                        /\ UNCHANGED httpSessions
                   ELSE /\ response' =
                              [stored.reply EXCEPT !.extracted = "text", !.calls = made + 1,
                                                   !.fromCache = cached]
                        /\ sessionsDir' = IF cached THEN stored.dirs ELSE analysed
                        /\ httpSessions' = [httpSessions EXCEPT ![c].orgData = "upload"]
        /\ UNCHANGED << pipelineVars, workflowVars, appVars, loginVars, cacheVars, uploadsDir, nextUuid >>

\* POST /api/generate/docx, lines 1011-1093
GenerateDocx(c, prompt, generateOk) ==
    LET route == "POST /api/generate/docx"
        reply(status, error) == [Reply(c, route, status, error) EXCEPT !.prompt = prompt]
    IN  /\ IF httpSessions[c].rfpFile = "none" \/ httpSessions[c].orgFile = "none"
           THEN /\ response' =
                      reply(400, "Both RFP and organization files must be uploaded first")
                /\ UNCHANGED << httpSessions, uploadsDir >>
           ELSE IF prompt = ""
           THEN /\ response' = reply(400, "Prompt is required")
                /\ UNCHANGED << httpSessions, uploadsDir >>
           ELSE IF ~ generateOk \/ c \notin DOMAIN uploadsDir
           THEN /\ response' = [reply(500, "Failed to generate document")
                                   EXCEPT !.calls = 1]
                /\ UNCHANGED << httpSessions, uploadsDir >>
           ELSE /\ response' = [reply(200, "none") EXCEPT !.calls = 1,
                                                          !.fileName = ResponseName]
                /\ uploadsDir' = [uploadsDir EXCEPT ![c] = @ \cup {ResponseName}]
                /\ httpSessions' = [httpSessions EXCEPT ![c].generatedDoc = "docx"]
        /\ accessed' = {}
        /\ UNCHANGED << pipelineVars, workflowVars, appVars, loginVars, cacheVars, sessionsDir, dirCreator, nextUuid >>

\* GET /api/download/:filename, lines 1096-1116: uploads/<req.session.id>
Download(c, fileName) ==
    /\ response' =
          IF c \in DOMAIN uploadsDir /\ fileName \in uploadsDir[c]
          THEN [Reply(c, "GET /api/download/:filename", 200, "none")
                   EXCEPT !.fileName = fileName]
          ELSE [Reply(c, "GET /api/download/:filename", 404, "File not found")
                   EXCEPT !.fileName = fileName]
    /\ accessed' = {}
    /\ UNCHANGED << pipelineVars, workflowVars, appVars, loginVars, cacheVars, httpSessions, sessionsDir, dirCreator, uploadsDir,
                    nextUuid >>

\* GET /api/session/file/:filename, lines 1148-1178
SessionFile(c, fileName) ==
    LET sessionId == SessionIdOf(c)
        exists == sessionId \in DOMAIN sessionsDir /\ fileName \in sessionsDir[sessionId]
    IN  /\ response' =
              IF exists
              THEN [Reply(c, "GET /api/session/file/:filename", 200, "none")
                       EXCEPT !.fileName = fileName]
              ELSE [Reply(c, "GET /api/session/file/:filename", 404, "File not found")
                       EXCEPT !.fileName = fileName]
        /\ accessed' = IF exists THEN {<< sessionId, "read" >>} ELSE {}
        /\ UNCHANGED << pipelineVars, workflowVars, appVars, loginVars, cacheVars, httpSessions, sessionsDir, dirCreator,
                        uploadsDir, nextUuid >>

\* the files a refresh request names, in the order it names them
RefreshLists ==
    { << "requirements" >>, << "variables" >>, << "template" >>,
      << "requirements", "variables", "template" >> }

\* POST /api/session/refresh, lines 1181-1237: the paths come from
\* getSessionFiles(req.session.id).  A write into a directory that does not
\* exist fails, and so does a failing text-generation call.
Refresh(c, files, generateOk) ==
    LET route == "POST /api/session/refresh"
        sessionFiles == GetSessionFiles(sessionsDir, c)
        asked == Range(files)
        templated == /\ "template" \in asked
                     /\ "requirements" \in asked \/ sessionFiles.RFP_REQUIREMENTS
                     /\ "variables" \in asked \/ sessionFiles.RFP_VARIABLES
        written == (IF "requirements" \in asked THEN {SESSION_FILES.RFP_REQUIREMENTS} ELSE {})
                   \cup (IF "variables" \in asked THEN {SESSION_FILES.RFP_VARIABLES} ELSE {})
                   \cup (IF templated THEN {SESSION_FILES.RFP_TEMPLATE} ELSE {})
    IN  /\ IF httpSessions[c].rfpData = "none"
           THEN /\ response' = Reply(c, route, 400,
                                     "No RFP data found. Please upload an RFP first.")
                /\ accessed' = {}
                /\ UNCHANGED sessionsDir
           ELSE IF written = {}
           THEN /\ response' = [Reply(c, route, 200, "none") EXCEPT !.sessionId = c]
                /\ accessed' = {}
                /\ UNCHANGED sessionsDir
           ELSE IF ~ generateOk \/ c \notin DOMAIN sessionsDir
           THEN /\ response' = [Reply(c, route, 500, "Failed to refresh files")
                                   EXCEPT !.calls = 1, !.sessionId = c]
                /\ accessed' = {}
                /\ UNCHANGED sessionsDir
           ELSE /\ response' = [Reply(c, route, 200, "none")
                                   EXCEPT !.calls = Cardinality(written), !.sessionId = c]
                /\ accessed' = {<< c, "write" >>}
                /\ sessionsDir' = WriteFiles(sessionsDir, c, written)
        /\ UNCHANGED << pipelineVars, workflowVars, appVars, loginVars, cacheVars, httpSessions, dirCreator, uploadsDir,
                        nextUuid >>

\* what the request body of POST /api/generate/document can hold
VariableBodies == {"none", "missing", "complete"}

\* POST /api/generate/document, lines 1269-1359
GenerateDocument(c, variables) ==
    LET route == "POST /api/generate/document"
        sessionId == SessionIdOf(c)
        sessionFiles == GetSessionFiles(sessionsDir, sessionId)
    IN  /\ IF variables = "none"
           THEN /\ response' = Reply(c, route, 400, "Variables are required")
                /\ accessed' = {}
                /\ UNCHANGED sessionsDir
           ELSE IF ~ sessionFiles.RFP_TEMPLATE
           THEN /\ response' =
                      Reply(c, route, 400,
                            "Template file not found. Please upload and process an RFP first.")
                /\ accessed' = {}
                /\ UNCHANGED sessionsDir
           ELSE IF variables = "missing"
           THEN /\ response' = Reply(c, route, 400, "Missing required variable")
                /\ accessed' = {}
                /\ UNCHANGED sessionsDir
           ELSE /\ response' = [Reply(c, route, 200, "none") EXCEPT !.fileName = ResponseName]
                /\ accessed' = {<< sessionId, "read" >>, << sessionId, "write" >>}
                /\ sessionsDir' = WriteFiles(sessionsDir, sessionId, {ResponseName})
        /\ UNCHANGED << pipelineVars, workflowVars, appVars, loginVars, cacheVars, httpSessions, dirCreator, uploadsDir,
                        nextUuid >>

(***************************************************************************)
(* Two clients, each with its own express session: client 1 creates named  *)
(* sessions and refreshes, client 2 lists, selects, switches, deletes and   *)
(* clears, and both upload an RFP and read a session file                   *)
(***************************************************************************)
SessionIds == 0 .. (FirstUuid + MaxSessions - 1)

TextFile == [mimetype |-> TXT_MIME, ext |-> ".txt"]

\* a file the file filter refuses
ProgramFile == [mimetype |-> "application/octet-stream", ext |-> ".exe"]

NextSessions ==
    \/ \E route \in {"POST /api/sessions", "POST /api/session/create"}, name \in {"", "Bid"} :
          CreateSession(1, route, name)
    \/ Refresh(1, << "requirements" >>, TRUE)
    \/ ListSessions(2)
    \/ \E s \in SessionIds : SelectSession(2, s, TRUE)
    \/ \E s \in SessionIds : SwitchSession(2, s)
    \/ \E s \in SessionIds : DeleteSession(2, s)
    \/ ClearAllSessions(2)
    \/ \E c \in Clients :
          \/ UploadRfp(c, TextFile, "ok", TRUE, 3)
          \/ SessionFile(c, SESSION_FILES.RFP_REQUIREMENTS)

SpecSessions == Init /\ [][NextSessions]_vars

(***************************************************************************)
(* One client uploading RFP files of every kind and refreshing              *)
(***************************************************************************)
NextUpload ==
    \/ \E file \in UploadFiles \cup {NoFile}, outcome \in ExtractionOutcomes,
          useCache \in BOOLEAN, callsOk \in 0..3 :
          UploadRfp(1, file, outcome, useCache, callsOk)
    \/ \E files \in RefreshLists, ok \in BOOLEAN : Refresh(1, files, ok)

SpecUpload == Init /\ [][NextUpload]_vars

(***************************************************************************)
(* One client going through both uploads, generation and download           *)
(***************************************************************************)
NextGenerate ==
    \/ \E useCache \in BOOLEAN, callsOk \in {0, 3} :
          UploadRfp(1, TextFile, "ok", useCache, callsOk)
    \/ \E file \in {TextFile, ProgramFile, NoFile}, outcome \in ExtractionOutcomes,
          useCache \in BOOLEAN, callsOk \in {"none", "analysis", "unmapped", "all"} :
          UploadOrganization(1, file, outcome, useCache, callsOk)
    \/ \E prompt \in {"", "Write the response"}, ok \in BOOLEAN : GenerateDocx(1, prompt, ok)
    \/ \E variables \in VariableBodies : GenerateDocument(1, variables)
    \/ \E fileName \in {ResponseName, SESSION_FILES.RFP_TEMPLATE} : Download(1, fileName)
    \/ \E fileName \in {ResponseName, SESSION_FILES.RFP_TEMPLATE} : SessionFile(1, fileName)

SpecGenerate == Init /\ [][NextGenerate]_vars

(***************************************************************************)
(* One client creating, selecting and switching sessions, uploading RFP     *)
(* files, refreshing and reading session files                              *)
(***************************************************************************)
NextRefresh ==
    \/ CreateSession(1, "POST /api/sessions", "Bid")
    \/ \E s \in SessionIds : SelectSession(1, s, TRUE)
    \/ \E s \in SessionIds : SwitchSession(1, s)
    \/ \E outcome \in {"ok", "readFails"}, useCache \in BOOLEAN, callsOk \in {0, 3} :
          UploadRfp(1, TextFile, outcome, useCache, callsOk)
    \/ \E files \in RefreshLists, ok \in BOOLEAN : Refresh(1, files, ok)
    \/ SessionFile(1, SESSION_FILES.RFP_REQUIREMENTS)

SpecRefresh == Init /\ [][NextRefresh]_vars

(***************************************************************************)
(* The login sessions of SimpleDatabase: createSession, findSession,        *)
(* cleanExpiredSessions and the passing of time.  readFile gives [] when    *)
(* the read fails, writeFile gives false when the write fails.              *)
(***************************************************************************)
ReadSessions(readOk) == IF readOk THEN loginSessions ELSE << >>

WriteSessions(writeOk, sessions) == IF writeOk THEN sessions ELSE loginSessions

\* every session lives 24 hours
ExpirationTime_AlwaysDay(rememberMe) == SESSION_HOURS

\* lines 186-188
ExpirationTime(rememberMe) == IF rememberMe THEN REMEMBER_ME_HOURS ELSE SESSION_HOURS

LoginCall(op, id, readOk, writeOk, value) ==
    [op |-> op, id |-> id, readOk |-> readOk, writeOk |-> writeOk, value |-> value]

\* createSession, lines 180-207
LoginCreateSession(id, rememberMe, readOk, writeOk) ==
    /\ \A i \in DOMAIN loginSessions : loginSessions[i].id # id
    /\ LET newSession == [id |-> id, rememberMe |-> rememberMe, createdAt |-> loginClock,
                          expiresAt |-> loginClock + ExpirationTime(rememberMe)]
       IN  loginSessions' = WriteSessions(writeOk, Append(ReadSessions(readOk), newSession))
    /\ loginReturned' = LoginCall("createSession", id, readOk, writeOk, id)
    /\ UNCHANGED << pipelineVars, workflowVars, appVars, cacheVars, serverVars, loginClock >>

\* deleteSession, lines 230-240, as findSession calls it
DeletedSession(id, readOk, writeOk) ==
    WriteSessions(writeOk, SelectSeq(ReadSessions(readOk), LAMBDA s : s.id # id))

\* findSession, lines 209-228: readOk is the read of findSession itself,
\* deleteReadOk and writeOk are the read and the write of deleteSession
FindSession(id, readOk, deleteReadOk, writeOk) ==
    LET sessions == ReadSessions(readOk)
        found == { i \in DOMAIN sessions : sessions[i].id = id }
        expired == found # {} /\ \A i \in found : sessions[i].expiresAt < loginClock
    IN  /\ loginSessions' = IF expired THEN DeletedSession(id, deleteReadOk, writeOk)
                            ELSE loginSessions
        /\ loginReturned' =
              LoginCall("findSession", id, readOk /\ (expired => deleteReadOk), writeOk,
                        IF found = {} \/ expired THEN "null" ELSE id)
        /\ UNCHANGED << pipelineVars, workflowVars, appVars, cacheVars, serverVars, loginClock >>

\* cleanExpiredSessions, lines 256-272, run every hour by createApp
CleanExpiredSessions(readOk, writeOk) ==
    LET sessions == ReadSessions(readOk)
        activeSessions == SelectSeq(sessions, LAMBDA s : s.expiresAt > loginClock)
    IN  /\ loginSessions' = IF Len(activeSessions) # Len(sessions)
                            THEN WriteSessions(writeOk, activeSessions)
                            ELSE loginSessions
        /\ loginReturned' =
              LoginCall("cleanExpiredSessions", "none", readOk, writeOk,
                        ToString(Len(sessions) - Len(activeSessions)))
        /\ UNCHANGED << pipelineVars, workflowVars, appVars, cacheVars, serverVars, loginClock >>

\* time passes until the given instant
LoginPause(until) ==
    /\ loginClock < until
    /\ until <= MaxLoginHours
    /\ loginClock' = until
    /\ UNCHANGED << pipelineVars, workflowVars, appVars, cacheVars, serverVars, loginSessions, loginReturned >>

NextLogin ==
    \/ \E id \in LoginIds, rememberMe \in BOOLEAN, readOk \in BOOLEAN, writeOk \in BOOLEAN :
          LoginCreateSession(id, rememberMe, readOk, writeOk)
    \/ \E id \in LoginIds, readOk \in BOOLEAN, deleteReadOk \in BOOLEAN, writeOk \in BOOLEAN :
          FindSession(id, readOk, deleteReadOk, writeOk)
    \/ \E readOk \in BOOLEAN, writeOk \in BOOLEAN : CleanExpiredSessions(readOk, writeOk)
    \/ \E t \in Instants : LoginPause(t)

SpecLogin == Init /\ [][NextLogin]_vars

\* WorkflowManager: the methods and the click handler of the tabs
SwitchToStep(step) ==
    /\ currentStep' = SwitchedTo(step, currentStep)
    /\ UNCHANGED << pipelineVars, appVars, cacheVars, serverVars, loginVars, completedSteps,
                    tabDisabled >>

\* the click handler of the tabs: a disabled tab does nothing
ClickTab(step) ==
    /\ ~ tabDisabled[step]
    /\ SwitchToStep(step)

MarkStepCompleted(step) ==
    /\ completedSteps' = MarkedCompleted(step, completedSteps)
    /\ tabDisabled' = IF step < 1 \/ step > maxSteps
                      THEN tabDisabled
                      ELSE UpdateTabStates(completedSteps')
    /\ UNCHANGED << pipelineVars, appVars, cacheVars, serverVars, loginVars, currentStep >>

EnableNextStep ==
    LET marked == IF currentStep < 1 \/ currentStep > maxSteps
                  THEN tabDisabled
                  ELSE UpdateTabStates(completedSteps')
    IN  /\ completedSteps' = MarkedCompleted(currentStep, completedSteps)
        /\ tabDisabled' = IF currentStep < maxSteps /\ (currentStep + 1) \in WorkflowSteps
                          THEN [marked EXCEPT ![currentStep + 1] = FALSE]
                          ELSE marked
        /\ UNCHANGED << pipelineVars, appVars, cacheVars, serverVars, loginVars, currentStep >>

Reset ==
    /\ currentStep' = SwitchedTo(1, 1)
    /\ completedSteps' = << >>
    /\ tabDisabled' = UpdateTabStates(<< >>)
    /\ UNCHANGED << pipelineVars, appVars, cacheVars, serverVars, loginVars >>

\* a currentStep of 0 is falsy and is skipped like a missing one
SetProgress(progress) ==
    LET given(field) == field \in DOMAIN progress
        assigned == IF given("currentStep") /\ progress.currentStep # 0
                    THEN progress.currentStep
                    ELSE currentStep
    IN  /\ currentStep' = SwitchedTo(assigned, assigned)
        /\ completedSteps' = IF given("completedSteps")
                             THEN progress.completedSteps
                             ELSE completedSteps
        /\ tabDisabled' = UpdateTabStates(completedSteps')
        /\ UNCHANGED << pipelineVars, appVars, cacheVars, serverVars, loginVars >>

NextWorkflow ==
    \/ \E step \in StepArguments : SwitchToStep(step)
    \/ \E step \in WorkflowSteps : ClickTab(step)
    \/ \E step \in StepArguments : MarkStepCompleted(step)
    \/ EnableNextStep
    \/ Reset
    \/ \E progress \in ProgressObjects : SetProgress(progress)

SpecWorkflow == Init /\ [][NextWorkflow]_vars

\* RfpProposalApp: the handlers of the user's actions and of the upload response

\* a click on a proposal of the tree: setActiveProposal, then handleProposalSelect
SetActiveProposal(proposalId) ==
    LET completed == IF OutputsOf(clientProposals, proposalId) # {}
                     THEN MarkedCompleted(1, << >>)
                     ELSE << >>
    IN  /\ activeProposalId' = proposalId
        /\ currentStep' = SwitchedTo(1, 1)
        /\ completedSteps' = completed
        /\ tabDisabled' = UpdateTabStates(completed)
        /\ artifactList' = OutputsOf(clientProposals, proposalId)
        /\ rfpFileSelected' = FALSE
        /\ processRfpBtnDisabled' = TRUE
        /\ appEvent' = [kind |-> "select", proposal |-> proposalId, step |-> 1]
        /\ UNCHANGED << pipelineVars, cacheVars, serverVars, loginVars, clientProposals,
                        uploadsInFlight >>

\* the change event of the file input
HandleFileSelection(chosen) ==
    /\ rfpFileSelected' = chosen
    /\ processRfpBtnDisabled' = ~ chosen
    /\ UNCHANGED << pipelineVars, cacheVars, serverVars, loginVars, workflowVars,
                    clientProposals, activeProposalId, artifactList, uploadsInFlight,
                    appEvent >>

\* a click on the analyze button, up to the await of the upload request
HandleRfpProcessing ==
    /\ ~ processRfpBtnDisabled
    /\ Len(uploadsInFlight) < MaxInFlight
    /\ IF ~ rfpFileSelected \/ activeProposalId = NoActiveProposal
       THEN /\ appEvent' = [kind |-> "refused", proposal |-> activeProposalId,
                            step |-> currentStep]
            /\ UNCHANGED << processRfpBtnDisabled, uploadsInFlight >>
       ELSE /\ processRfpBtnDisabled' = TRUE
            /\ uploadsInFlight' = Append(uploadsInFlight,
                                         [proposal |-> activeProposalId,
                                          step |-> currentStep])
            /\ appEvent' = [kind |-> "uploadStarted", proposal |-> activeProposalId,
                            step |-> currentStep]
    /\ UNCHANGED << pipelineVars, cacheVars, serverVars, loginVars, workflowVars,
                    clientProposals, activeProposalId, artifactList, rfpFileSelected >>

\* the rest of handleRfpProcessing: the response of upload i arrives
UploadResponds(i, ok) ==
    LET upload == uploadsInFlight[i]
        others == [j \in 1 .. (Len(uploadsInFlight) - 1) |->
                      IF j < i THEN uploadsInFlight[j] ELSE uploadsInFlight[j + 1]]
    IN  /\ i \in DOMAIN uploadsInFlight
        /\ uploadsInFlight' = others
        /\ processRfpBtnDisabled' = FALSE
        /\ IF ok
           THEN /\ clientProposals' = [clientProposals EXCEPT ![upload.proposal] = TRUE]
                /\ artifactList' = {upload.proposal}
                /\ rfpFileSelected' = FALSE
                /\ completedSteps' = MarkedCompleted(currentStep, completedSteps)
                /\ tabDisabled' = TabsAfterEnableNextStep(currentStep, completedSteps,
                                                          tabDisabled)
                /\ appEvent' = [kind |-> "uploadDone", proposal |-> upload.proposal,
                                step |-> upload.step]
           ELSE /\ appEvent' = [kind |-> "uploadFailed", proposal |-> upload.proposal,
                                step |-> upload.step]
                /\ UNCHANGED << clientProposals, artifactList, rfpFileSelected,
                                completedSteps, tabDisabled >>
        /\ UNCHANGED << pipelineVars, cacheVars, serverVars, loginVars, currentStep,
                        activeProposalId >>

NextApp ==
    \/ \E proposalId \in AppProposalIds : SetActiveProposal(proposalId)
    \/ \E chosen \in BOOLEAN : HandleFileSelection(chosen)
    \/ HandleRfpProcessing
    \/ \E i \in 1 .. MaxInFlight, ok \in BOOLEAN : UploadResponds(i, ok)
    \/ \E step \in WorkflowSteps : ClickTab(step)

SpecApp == Init /\ [][NextApp]_vars

(***************************************************************************)
(* Properties                                                              *)
(***************************************************************************)
LastCall == serviceCalls[Len(serviceCalls)]

FallbackReturned == analysis # NoAnalysis

AllCallsFailed ==
    /\ Len(serviceCalls) = Len(modelFallbacks)
    /\ \A i \in DOMAIN serviceCalls : ~ serviceCalls[i].ok

IsPrefix(s, t) == Len(s) <= Len(t) /\ \A i \in DOMAIN s : s[i] = t[i]

CallFinished == pc = "done"

CallFailed == pc = "done" /\ result.kind = "error"

CallSucceeded == pc = "done" /\ result.kind = "ok"

\* every artifact entry of every stored record
ReferencedEntries ==
    UNION { Range(proposalsFile[i].outputs) : i \in DOMAIN proposalsFile }

\* C1: when the calls for identifiers 1..k-1 fail and the call for identifier k
\* returns a response, analyzeWithFallback returns the Analysis built from that
\* response and no call is made for any identifier after k.
C1_FirstResponseWins ==
    FallbackReturned =>
        LET k == Len(serviceCalls)
        IN  /\ k \in 1..Len(modelFallbacks)
            /\ \A i \in 1..(k - 1) :
                 ~ serviceCalls[i].ok /\ serviceCalls[i].model = modelFallbacks[i]
            /\ serviceCalls[k].ok
            /\ serviceCalls[k].model = modelFallbacks[k]
            /\ analysis = AnalysisOfResponse(serviceCalls[k].text, modelFallbacks[k])
            /\ err = NoError

C1_Witness ==
    /\ FallbackReturned
    /\ Len(modelFallbacks) = 3
    /\ Len(serviceCalls) = 2
    /\ ~ serviceCalls[1].ok

\* C2: analyzeWithFallback fails with the 'All Gemini models failed' error when
\* the call for every configured identifier has failed, and fails in no other case
\* and with no other error.
C2_ExhaustedErrorIffAllFailed ==
    /\ (pc # "analyzeWithFallback" /\ AllCallsFailed) =>
          /\ err.msg = "All Gemini models failed. Please try again later or check your API quota."
          /\ err.at = "analyzeWithFallback"
    /\ err # NoError =>
          /\ AllCallsFailed
          /\ err.msg = "All Gemini models failed. Please try again later or check your API quota."

C2_Witness ==
    /\ err.at = "analyzeWithFallback"
    /\ Len(modelFallbacks) = 3
    /\ Len(serviceCalls) = 3

\* C3: when processRFPDocument fails, proposals.json holds exactly what it held
\* before the call.
C3_FailedRunLeavesStoreUnchanged ==
    (err # NoError \/ result.kind = "error") => proposalsFile = storeBefore

C3_Witness ==
    /\ CallFailed
    /\ err.at = "analyzeWithFallback"
    /\ \E i \in DOMAIN proposalsFile :
         /\ proposalsFile[i].id = args.proposalId
         /\ proposalsFile[i].userId = args.userId
         /\ Len(proposalsFile[i].outputs) = 4

\* C4: a processRFPDocument run that fails never changes a file that an artifact
\* entry of a stored record references: after a failed run every referenced file
\* is still the one written by the run that attached the entry.
C4_FailedRunKeepsReferencedFiles ==
    CallFailed =>
        \A e \in ReferencedEntries :
            /\ e.filePath \in DOMAIN generated
            /\ generated[e.filePath].mtime = e.createdAt

\* C5: if writing an artifact file or writing the updated record fails during
\* processRFPDocument, the call fails, and the deletion of the raw upload is
\* still carried out.
C5_PersistenceFailureFailsCall ==
    (CallFinished /\ (err.at = "saveGeneratedFile" \/ writeResult = "false")) =>
        /\ result.kind = "error"
        /\ removeResult # "none"

\* C6 as stated: after every call, successful or failed, the raw uploaded file
\* is gone, and the outcome of the run is the one it had before the cleanup.
C6_RawUploadAlwaysDeleted ==
    CallFinished =>
        /\ args.filePath \notin uploads
        /\ result.kind = "ok" <=> err = NoError
        /\ result.err = err

\* C6 amended: every call that completes has attempted the deletion of the raw
\* uploaded file, the file is gone whenever that removal did not itself fail,
\* and the attempt never changes the outcome of the run.
C6_DeletionAttemptedOutcomeKept ==
    CallFinished =>
        /\ removeResult \in {"removed", "failed"}
        /\ removeResult = "removed" => args.filePath \notin uploads
        /\ result.kind = "ok" <=> (err = NoError /\ writeResult # "none")
        /\ result.kind = "error" <=> err # NoError
        /\ result.err = err

C6_Witness ==
    /\ CallFailed
    /\ removeResult = "removed"
    /\ args.filePath \notin uploads
    /\ Len(saved) >= 1

\* C7: after every successful processRFPDocument the stored record lists exactly
\* four artifacts, one of each type, each with an existing file in the work
\* item's directory, and upload_rfp is completed.
C7_SuccessPersistsFourArtifacts ==
    CallSucceeded =>
        \E i \in DOMAIN proposalsFile :
            LET rec == proposalsFile[i]
            IN  /\ rec.id = args.proposalId
                /\ rec.userId = args.userId
                /\ Len(rec.outputs) = 4
                /\ \A t \in {"Source Document", "Template", "Variables", "Requirements"} :
                     Cardinality({ j \in 1..Len(rec.outputs) : rec.outputs[j].type = t }) = 1
                /\ \A j \in 1..Len(rec.outputs) :
                     /\ rec.outputs[j].filePath \in DOMAIN generated
                     /\ rec.outputs[j].filePath[1] = rec.id
                /\ rec.subtasks["upload_rfp"] = "completed"

\* C8: whatever text the service returns, the Analysis returned has all four
\* requirement lists and the assembly that follows does not fail.
C8_AnyResponseAssembles ==
    (FallbackReturned /\ pc # "assemble") =>
        /\ RequirementLists \subseteq analysis.fields
        /\ err.msg # "TypeError"

\* C9 as stated: the degraded Analysis has a projectSummary that is a prefix of
\* the raw response text.
C9_SummaryIsPrefixOfRaw ==
    (FallbackReturned /\ analysis.source = "fallback") =>
        IsPrefix(analysis.projectSummary, LastCall.text)

\* C9 amended: when no JSON object can be parsed from the response,
\* analyzeWithFallback returns without throwing a degraded Analysis whose
\* projectSummary is the first min(500, length) characters of the raw text
\* followed by "...".
C9_SummaryIsTruncatedRawPlusEllipsis ==
    (Len(serviceCalls) > 0 /\ LastCall.ok
       /\ ~ (JsonMatch(LastCall.text) # << >> /\ JsonParses(JsonMatch(LastCall.text)))) =>
        LET text == LastCall.text
            n == IF Len(text) < 500 THEN Len(text) ELSE 500
            summary == analysis.projectSummary
        IN  /\ analysis.source = "fallback"
            /\ err = NoError
            /\ Len(summary) = n + 3
            /\ \A i \in 1..n : summary[i] = text[i]
            /\ \A i \in (n + 1)..(n + 3) : summary[i] = "."

C9_Witness ==
    /\ analysis.source = "fallback"
    /\ Len(LastCall.text) > 500
    /\ Len(analysis.projectSummary) = 503

\* C10: within one invocation the identifiers are called in list order, each at
\* most once, and only a failed call is followed by another call.
C10_ListOrderOneAttemptEach ==
    /\ Len(serviceCalls) <= Len(modelFallbacks)
    /\ \A i \in DOMAIN serviceCalls : serviceCalls[i].model = modelFallbacks[i]
    /\ \A i, j \in DOMAIN serviceCalls : i # j => serviceCalls[i].model # serviceCalls[j].model
    /\ \A i \in 1..(Len(serviceCalls) - 1) : ~ serviceCalls[i].ok

C10_Witness ==
    /\ Len(modelFallbacks) = 3
    /\ Len(serviceCalls) = 3
    /\ ~ serviceCalls[2].ok

\* C11: provided every call to the service eventually returns or fails,
\* analyzeWithFallback terminates after at most as many service calls as there
\* are configured identifiers, with an Analysis or with the exhausted-fallback
\* error.
C11_TerminatesWithinListLength ==
    /\ <>(pc # "analyzeWithFallback")
    /\ [](Len(serviceCalls) <= Len(modelFallbacks))
    /\ [](pc # "analyzeWithFallback" =>
            \/ (FallbackReturned /\ err = NoError)
            \/ (~ FallbackReturned
                 /\ err.msg = "All Gemini models failed. Please try again later or check your API quota."))

C11_Witness ==
    /\ pc = "assemble"
    /\ FallbackReturned
    /\ Len(modelFallbacks) = 3
    /\ Len(serviceCalls) = Len(modelFallbacks)

\* the record of a frame's work item as proposals.json holds it
StoredRecord(f) == GetProposalRecord(proposalsFile, f.userId, f.proposalId)

Returned(r, op) == requests[r].op = op /\ requests[r].pc = "done"

ReturnedOk(r, op) == Returned(r, op) /\ requests[r].result.kind = "ok"

Threw(r, op) == Returned(r, op) /\ requests[r].result.kind = "error"

\* C12: when two processRFPDocument calls for two different work items have
\* both returned successfully, proposals.json holds the update of each of them:
\* its document, its four artifacts, its analysis and the completed upload_rfp
\* entry.
C12_BothUploadsStored ==
    \A r, q \in Requests :
        ( /\ ReturnedOk(r, "processRFPDocument")
          /\ ReturnedOk(q, "processRFPDocument")
          /\ requests[r].proposalId # requests[q].proposalId
          /\ StoredRecord(requests[q]) # NoProposal
          /\ GetProposalRecord(requests[r].before.store, requests[q].userId,
                               requests[q].proposalId) # NoProposal
          /\ GetProposalRecord(requests[q].before.store, requests[r].userId,
                               requests[r].proposalId) # NoProposal )
        => LET rec == StoredRecord(requests[r])
           IN  /\ rec # NoProposal
               /\ Len(rec.documents) >= 1
               /\ Len(rec.outputs) = 4
               /\ rec.analysis = requests[r].analysis
               /\ rec.subtasks["upload_rfp"] = "completed"

HasProposal(store, userId) == Len(GetProposalsByUser(store, userId)) >= 1

\* C13: a user who has a proposal in proposals.json (every user has one from
\* the moment of seeding) never ends up with none, whatever createProposal and
\* deleteProposal requests of that user run and however they interleave.
C13_NeverWithoutProposal ==
    [][\A u \in Users : HasProposal(proposalsFile, u) => HasProposal(proposalsFile', u)]_vars

\* C14: deleteProposal called while the user has exactly one proposal fails with
\* the 'At least one proposal task is required' error and removes neither the
\* proposal record nor any generated file.
C14_LastProposalIsKept ==
    \A r \in Requests :
        ( /\ Returned(r, "deleteProposal")
          /\ Len(GetProposalsByUser(requests[r].before.store, requests[r].userId)) = 1 )
        => /\ requests[r].result.kind = "error"
           /\ requests[r].result.err.msg =
                 "At least one proposal task is required. Create another proposal before deleting this one."
           /\ proposalsFile = requests[r].before.store
           /\ generated = requests[r].before.files

C14_Witness ==
    LET f == requests["r1"]
    IN  /\ Threw("r1", "deleteProposal")
        /\ Len(GetProposalsByUser(f.before.store, f.userId)) = 1
        /\ StoredRecord(f) # NoProposal
        /\ Len(StoredRecord(f).outputs) = 4
        /\ \E p \in DOMAIN generated : p[1] = f.proposalId

\* the checklist entries that a store holds as completed, by work item
CompletedEntries(store) ==
    { << store[c[1]].userId, store[c[1]].id, c[2] >> :
        c \in { d \in (DOMAIN store) \X Range(SUBTASK_DEFINITIONS) :
                  store[d[1]].subtasks[d[2]] = "completed" } }

StoredItems(store) == { << store[i].userId, store[i].id >> : i \in DOMAIN store }

\* C15: with the calls executed one at a time, no step stores as pending a
\* checklist entry that the store held as completed, and a processRFPDocument
\* call that fails leaves every stored checklist entry as it was.
C15_ChecklistOnlyAdvances ==
    /\ [][\A e \in CompletedEntries(proposalsFile) :
            << e[1], e[2] >> \in StoredItems(proposalsFile')
                => e \in CompletedEntries(proposalsFile')]_vars
    /\ [](\A r \in Requests :
            Threw(r, "processRFPDocument") =>
                /\ StoredItems(proposalsFile) = StoredItems(requests[r].before.store)
                /\ CompletedEntries(proposalsFile) = CompletedEntries(requests[r].before.store))

C15_Witness ==
    LET f == requests["r1"]
    IN  /\ ReturnedOk("r1", "updateArtifact")
        /\ f.proposal.subtasks["upload_rfp"] = "completed"
        /\ StoredRecord(f) = f.proposal
        /\ StoredRecord(f).outputs[1].updatedAt >= 1

\* the record the running call loaded, and the artifact entries of its files
LoadedRecord == GetProposalRecord(storeBefore, args.userId, args.proposalId)

RunEntries == [i \in 1..Len(saved) |-> ArtifactEntry(saved[i])]

\* C16 as stated: a successful processRFPDocument appends one Document record
\* and the four artifact entries of the run to the lists of the record it
\* loaded, so that the entries of earlier runs stay in place and in order.
C16_RunAppendsDocumentAndArtifacts ==
    CallSucceeded =>
        /\ Len(proposal.documents) = Len(LoadedRecord.documents) + 1
        /\ IsPrefix(LoadedRecord.documents, proposal.documents)
        /\ proposal.outputs = LoadedRecord.outputs \o RunEntries

\* C16 amended: a successful processRFPDocument appends one Document record to
\* the documents of the record it loaded, earlier documents staying in place
\* and in order, and replaces the artifact list by the four entries of this
\* run; that record is what a successful write puts into proposals.json.
C16_RunAppendsDocumentReplacesArtifacts ==
    CallSucceeded =>
        /\ Len(proposal.documents) = Len(LoadedRecord.documents) + 1
        /\ IsPrefix(LoadedRecord.documents, proposal.documents)
        /\ Len(saved) = 4
        /\ proposal.outputs = RunEntries
        /\ writeResult = "true" =>
              GetProposalRecord(proposalsFile, args.userId, args.proposalId) = proposal

C16_Witness ==
    /\ CallSucceeded
    /\ Len(LoadedRecord.outputs) = 4
    /\ Len(proposal.documents) = 2
    /\ Len(proposal.outputs) = 4
    /\ GetProposalRecord(proposalsFile, args.userId, args.proposalId) = proposal

\* the calls that start by looking up the work item of (userId, proposalId)
LookupCalls ==
    {"processRFPDocument", "getProposalArtifacts", "downloadArtifact", "updateArtifact"}

\* the store the call started from has no proposal with that id owned by that user
NoSuchProposal(f) ==
    ~ \E i \in DOMAIN f.before.store :
          /\ f.before.store[i].id = f.proposalId
          /\ f.before.store[i].userId = f.userId

\* C17: processRFPDocument, getProposalArtifacts, downloadArtifact and
\* updateArtifact called for a (userId, proposalId) pair with no proposal of
\* that id owned by that user fail with 'Proposal not found', and up to that
\* point no artifact file has been read or written and no call to the
\* text-generation service has been made.
C17_UnknownProposalFailsFirst ==
    \A r \in Requests :
        (requests[r].op \in LookupCalls /\ NoSuchProposal(requests[r])) =>
            /\ \A i \in DOMAIN requests[r].io :
                   requests[r].io[i] \notin
                       {"generated.read", "generated.write", "generateContent", "uploads.read"}
            /\ generated = requests[r].before.files
            /\ proposalsFile = requests[r].before.store
            /\ requests[r].pc = "done" =>
                  /\ requests[r].result.kind = "error"
                  /\ requests[r].result.err.msg = "Proposal not found"

C17_Witness ==
    LET f == requests["r1"]
    IN  /\ Threw("r1", "updateArtifact")
        /\ f.userId = "u2"
        /\ \E i \in DOMAIN proposalsFile :
              /\ proposalsFile[i].id = f.proposalId
              /\ proposalsFile[i].userId = "u1"
              /\ \E j \in DOMAIN proposalsFile[i].outputs :
                    proposalsFile[i].outputs[j].name = f.fileName

\* the names of the artifacts attached to the frame's work item when the call started
AttachedNames(f) ==
    LET rec == GetProposalRecord(f.before.store, f.userId, f.proposalId)
    IN  { rec.outputs[i].name : i \in DOMAIN rec.outputs }

\* C18: downloadArtifact and updateArtifact for a name that is not among the
\* artifacts attached to the work item fail with a not-found error, return no
\* file content and leave the generated files and proposals.json unchanged.
C18_UnattachedNameNotFound ==
    \A r \in Requests :
        ( /\ requests[r].op \in {"downloadArtifact", "updateArtifact"}
          /\ requests[r].pc = "done"
          /\ requests[r].fileName \notin AttachedNames(requests[r]) )
        => /\ requests[r].result.kind = "error"
           /\ requests[r].result.err.msg \in
                 {"Proposal not found", "Artifact not found",
                  "Failed to read file: File not found"}
           /\ requests[r].returned = << >>
           /\ generated = requests[r].before.files
           /\ proposalsFile = requests[r].before.store

\* C19: the Analysis returned by analyzeWithFallback has in metadata.modelUsed
\* the identifier of the model whose call produced the response, on the
\* parsed-JSON path and on the degraded path, at every list position.
C19_ModelUsedIsAnsweringModel ==
    FallbackReturned => analysis.modelUsed = LastCall.model

\* C20: for any Analysis, also one whose four requirement lists are empty, each
\* of the three generated documents is non-empty, and each list of responses in
\* the variables document is as long as the Analysis requirement list of the
\* same name.
C20_DocumentsNonEmptyResponsesMatch ==
    /\ "template" \in DOMAIN asmDocuments => Len(asmDocuments["template"]) > 0
    /\ "requirements" \in DOMAIN asmDocuments => Len(asmDocuments["requirements"]) > 0
    /\ "variables" \in DOMAIN asmDocuments =>
          LET v == asmDocuments["variables"]
          IN  /\ DOMAIN v # {}
              /\ Len(v.responses.functional) = Len(asmAnalysis.requirements.functional)
              /\ Len(v.responses.technical) = Len(asmAnalysis.requirements.technical)
              /\ Len(v.responses.compliance) = Len(asmAnalysis.requirements.compliance)
              /\ Len(v.responses.deliverables) = Len(asmAnalysis.requirements.deliverables)

C20_Witness ==
    /\ DOMAIN asmDocuments = {"template", "variables", "requirements"}
    /\ \A l \in RequirementLists : Len(asmAnalysis.requirements[l]) = 0
    /\ Len(asmDocuments["variables"].responses.functional) = 0

\* The lists of an Analysis and the heading each has in the requirements
\* document.
ListSections(a) ==
    { << "## Functional Requirements", a.requirements.functional >>,
      << "## Technical Requirements", a.requirements.technical >>,
      << "## Compliance Requirements", a.requirements.compliance >>,
      << "## Expected Deliverables", a.requirements.deliverables >>,
      << "## Evaluation Criteria", a.evaluation.criteria >>,
      << "**Other Constraints:**", a.constraints.other >>,
      << "## Key Questions to Address", a.questions >>,
      << "## Opportunities for Differentiation", a.opportunities >> }

HeadingLines(md, heading) == { k \in 1..Len(md) : md[k] = << heading >> }

\* the lines after line k are "1. ", "2. ", ... with the entries of list in order
NumberedAfter(md, k, list) ==
    /\ k + Len(list) <= Len(md)
    /\ \A i \in 1..Len(list) : md[k + i] = << ToString(i), ". ", list[i] >>

NumberedSection(md, heading, list) ==
    \E k \in HeadingLines(md, heading) :
        \/ NumberedAfter(md, k, list)
        \/ k + 1 <= Len(md) /\ md[k + 1] = Blank /\ NumberedAfter(md, k + 1, list)

\* C21: in the requirements document, the section of each list of the
\* Analysis is present exactly when the list is non-empty, and when present
\* its entries are numbered 1..n in the order of the list.
C21_ListSectionsNumbered ==
    "requirements" \in DOMAIN asmDocuments =>
        \A s \in ListSections(asmAnalysis) :
            /\ HeadingLines(asmDocuments["requirements"], s[1]) # {} <=> Len(s[2]) > 0
            /\ Len(s[2]) > 0 => NumberedSection(asmDocuments["requirements"], s[1], s[2])

FilesOfOthers(files, proposalId) ==
    [p \in { q \in DOMAIN files : q[1] # proposalId } |-> files[p]]

\* C23: once deleteProposal has returned true, proposals.json has no record
\* of the proposal and generated/<proposalId> has no file, and the records and
\* the generated files of every other proposal are those from before the call.
C23_SuccessfulDeleteCascades ==
    \A r \in Requests :
        ReturnedOk(r, "deleteProposal") =>
            LET f == requests[r]
            IN  /\ \A i \in DOMAIN proposalsFile : proposalsFile[i].id # f.proposalId
                /\ \A p \in DOMAIN generated : p[1] # f.proposalId
                /\ proposalsFile =
                      SelectSeq(f.before.store, LAMBDA p : p.id # f.proposalId)
                /\ FilesOfOthers(generated, f.proposalId) =
                      FilesOfOthers(f.before.files, f.proposalId)

\* a step that is a cache get: the cache and its clock stay as they are
CacheGetStep ==
    /\ cacheReturned'.op = "get"
    /\ cacheEntries' = cacheEntries
    /\ cacheClock' = cacheClock

\* C24: a cache get for a work item and key returns exactly the text of the
\* entry put last under that work item and key while the entry is younger than
\* 24 hours (and its metadata can be read), and returns absent once the entry
\* is 24 hours old or older, or when only another work item has an entry for
\* the key.
C24_GetReturnsFreshTextOfWorkItem ==
    [][CacheGetStep =>
          LET at == << cacheReturned'.workItem, cacheReturned'.key >>
              value == cacheReturned'.value
          IN  IF at \in DOMAIN cacheEntries
              THEN /\ ( /\ cacheClock - cacheEntries[at].createdAt < 24
                        /\ cacheReturned'.readable )
                      => value = cacheEntries[at].text
                   /\ cacheClock - cacheEntries[at].createdAt >= 24 => value = Absent
              ELSE value = Absent]_vars

C24_Witness ==
    /\ cacheReturned.op = "get"
    /\ cacheReturned.workItem = 1
    /\ DOMAIN cacheEntries = CacheWorkItems \X CacheKeys
    /\ cacheClock - cacheEntries[<< 1, "k1" >>].createdAt = 23
    /\ cacheReturned.value = cacheEntries[<< 1, "k1" >>].text
    /\ cacheEntries[<< 2, "k1" >>].text # cacheReturned.value

UploadRoutes == {"POST /api/upload/rfp", "POST /api/upload/organization"}

\* C25: extracting the text of an uploaded file never raises, whatever the
\* type of the file and whether reading or parsing it fails, so that no upload
\* request is answered with a failure that comes from the extraction.
C25_ExtractionNeverFailsUpload ==
    ~ (response.route \in UploadRoutes /\ response.extracted = "error")

\* C26: no request of a client reads, writes or deletes files of a session
\* directory that a request of another client created.
C26_SessionsIsolated ==
    [][\A a \in accessed' :
          a[1] \in DOMAIN dirCreator => dirCreator[a[1]] = response'.client]_vars

BothFilesError == "Both RFP and organization files must be uploaded first"

\* C29: in a session in which POST /api/upload/rfp and then POST
\* /api/upload/organization have succeeded, POST /api/generate/docx with a
\* non-empty prompt is not rejected with the 'Both RFP and organization files
\* must be uploaded first' error.
C29_DocxAcceptedAfterBothUploads ==
    ( /\ response.route = "POST /api/generate/docx"
      /\ response.prompt # ""
      /\ httpSessions[response.client].rfpData = "upload"
      /\ httpSessions[response.client].orgData = "upload" )
    => response.error # BothFilesError

\* C30: when GET /api/download/:filename asks for the document that POST
\* /api/generate/document wrote for the same session, the file is found.
C30_GeneratedDocumentDownloads ==
    ( /\ response.route = "GET /api/download/:filename"
      /\ response.fileName = ResponseName
      /\ response.sessionId \in DOMAIN sessionsDir
      /\ ResponseName \in sessionsDir[response.sessionId] )
    => response.status = 200

\* a step that is a call of findSession or of cleanExpiredSessions
FindSessionStep == loginReturned'.op = "findSession" /\ loginClock' = loginClock

CleanSessionsStep == loginReturned'.op = "cleanExpiredSessions" /\ loginClock' = loginClock

Without(sessions, id) == SelectSeq(sessions, LAMBDA s : s.id # id)

LifetimeOf(session) == IF session.rememberMe THEN 720 ELSE 24

C28_CurrentStepAccessible == IsStepAccessible(currentStep, completedSteps)

OrganizationRoute == "POST /api/upload/organization"

FileIn(dirs, sessionId, name) == sessionId \in DOMAIN dirs /\ name \in dirs[sessionId]

\* a POST /api/upload/organization of a client whose current session
\* directory holds no RFP variables file
OrgUploadWithoutVariables ==
    /\ response'.route = OrganizationRoute
    /\ ~ FileIn(sessionsDir, SessionIdOf(response'.client), SESSION_FILES.RFP_VARIABLES)

\* what such a request leaves alone: no text-generation call, no analysis
\* file written, orgData of the session unchanged
OrgUploadHadNoEffect ==
    /\ response'.calls = 0
    /\ FileIn(sessionsDir', SessionIdOf(response'.client), SESSION_FILES.ORG_ANALYSIS)
          => FileIn(sessionsDir, SessionIdOf(response'.client), SESSION_FILES.ORG_ANALYSIS)
    /\ httpSessions'[response'.client].orgData = httpSessions[response'.client].orgData

\* C31: POST /api/upload/organization in a session whose directory has no RFP
\* variables file is rejected with a 400 error, makes no text-generation call,
\* writes no analysis file and leaves the session's orgData unchanged.
C31_OrgUploadRejectedWith400 ==
    [][OrgUploadWithoutVariables => (response'.status = 400 /\ OrgUploadHadNoEffect)]_vars

\* C31 (amended): such a request is rejected, with status 400, or with status
\* 500 by the error middleware when the file filter refuses the file; it makes
\* no text-generation call, writes no analysis file and leaves orgData unchanged.
C31_OrgUploadRejected ==
    [][OrgUploadWithoutVariables =>
          /\ \/ response'.status = 400
             \/ response'.status = 500 /\ response'.error = "Internal server error"
          /\ OrgUploadHadNoEffect]_vars

C31_Witness ==
    /\ response.route = OrganizationRoute
    /\ response.status = 400
    /\ response.error = "Please upload and analyze an RFP document first"
    /\ ~ FileIn(sessionsDir, SessionIdOf(response.client), SESSION_FILES.RFP_VARIABLES)
    /\ FileIn(sessionsDir, SessionIdOf(response.client), << "org-original", ".txt" >>)

\* the step in which a successful response of an RFP upload is handled
UploadDoneStep ==
    /\ appEvent'.kind = "uploadDone"
    /\ Len(uploadsInFlight') < Len(uploadsInFlight)

\* C32: when an RFP upload started on workflow step 1 completes
\* successfully, workflow step 1 and no other step is marked completed,
\* whichever tab the user switched to while the upload was in progress.
C32_UploadCompletesStepOne ==
    [][(UploadDoneStep /\ appEvent'.step = 1) =>
          /\ Includes(completedSteps', 1)
          /\ \A step \in WorkflowSteps \ {1} :
                Includes(completedSteps', step) => Includes(completedSteps, step)]_vars

\* C36: when the response to an RFP upload arrives after the user has
\* selected a different proposal, the artifacts in the artifact list and the
\* completion of workflow step 1 are those of the proposal that is active,
\* not those of the proposal the upload was made for.
C36_LateResponseKeepsActiveProposal ==
    ( /\ appEvent.kind = "uploadDone"
      /\ activeProposalId # NoActiveProposal
      /\ activeProposalId # appEvent.proposal )
    => /\ artifactList \subseteq OutputsOf(clientProposals, activeProposalId)
       /\ Includes(completedSteps, 1) => clientProposals[activeProposalId]

\* C33: when a processRFPDocument call and an updateArtifact call on the same
\* work item have both returned successfully, proposals.json still holds the
\* results of processRFPDocument: its document entry, its four artifacts, its
\* analysis and the completed upload_rfp entry.
C33_UpdateKeepsUploadResults ==
    \A r, q \in Requests :
        ( /\ ReturnedOk(r, "processRFPDocument")
          /\ ReturnedOk(q, "updateArtifact")
          /\ requests[r].userId = requests[q].userId
          /\ requests[r].proposalId = requests[q].proposalId )
        => LET rec == StoredRecord(requests[r])
           IN  /\ rec # NoProposal
               /\ rec.documents = requests[r].proposal.documents
               /\ Len(rec.outputs) = 4
               /\ rec.analysis = requests[r].analysis
               /\ rec.subtasks["upload_rfp"] = "completed"

\* C34: a deleteProposal call that fails removes nothing: when it fails
\* because the proposal id does not belong to the calling user or does not
\* exist, the generated files, those of the proposals of other users
\* included, are the ones from before the call.
C34_FailedDeleteRemovesNothing ==
    \A r \in Requests :
        Threw(r, "deleteProposal") => generated = requests[r].before.files

\* the records of a store other than the one with the id and user of p
OtherRecords(store, p) == SelectSeq(store, LAMBDA q : ~ (q.id = p.id /\ q.userId = p.userId))

\* the step in which the saveProposalRecord call of request r writes proposals.json
SaveRecordWrites(r) ==
    /\ requests[r].op \in {"createProposal", "processRFPDocument", "updateArtifact"}
    /\ requests[r].pc = "saveAllProposals"
    /\ requests'[r].pc # "saveAllProposals"

\* C35: saveProposalRecord changes only the record with the given id and
\* user: every other record of proposals.json is the same after the call as
\* before it, also when reading proposals.json fails during the call.
C35_SaveChangesOneRecord ==
    [][\A r \in Requests :
          SaveRecordWrites(r) =>
              OtherRecords(proposalsFile', requests[r].proposal)
                 = OtherRecords(proposalsFile, requests[r].proposal)]_vars

\* C37: the fromCache flag in the response of a successful POST
\* /api/upload/rfp is true if and only if the requirements, variables and
\* template were loaded from the session's files and no text-generation call
\* was made, whichever of the three files existed beforehand.
C37_FromCacheIffNoGeneration ==
    (response.route = "POST /api/upload/rfp" /\ response.status = 200)
    => (response.fromCache <=> response.calls = 0)

\* C38: a POST /api/session/refresh that rewrites files writes them in the
\* current session's directory, the one POST /api/upload/rfp and GET
\* /api/session/file use, and in no other directory, whatever session create,
\* select and switch requests came before.
C38_RefreshWritesCurrentSession ==
    [][( /\ response'.route = "POST /api/session/refresh"
         /\ response'.status = 200
         /\ response'.calls > 0 )
       => accessed' = {<< SessionIdOf(response'.client), "write" >>}]_vars

====
